---- MODULE Spec2Model ----
(***************************************************************************)
(* The signal-to-decision control loop of the FocusDJ extension:           *)
(* focus scoring, trend delta, the intervention policy (gating, escalation *)
(* rules, UCB1 bandit), the feedback evaluator, and the service worker's   *)
(* tick and signal handlers working on the single persisted state blob.    *)
(*                                                                         *)
(* Conventions.                                                            *)
(*  - Times are wall-clock milliseconds.  A JavaScript null timestamp is   *)
(*    written 0 (the code only ever tests such fields for truthiness).     *)
(*  - A JavaScript null string (currentSite, currentCategory, a cleared    *)
(*    lastIntervention) is written "null".                                 *)
(*  - Fractional numbers are exact: focus-score arithmetic is carried in   *)
(*    units of 1/ScoreScale, arm values are reduced fractions num/den.     *)
(*    IEEE rounding of the doubles is not modelled.                        *)
(*                                                                         *)
(* Specifications.                                                         *)
(*  - Spec: the control loop driven by the alarm, one tick at a time.      *)
(*  - SpecRace: the loop with handleTabChange suspended at its awaits.     *)
(*  - SpecNuclear: the loop around the nuclear option.                     *)
(*  - SpecScore: the scorer over drawn signals.                            *)
(*  - SpecBandit: the arm update over sequences of evaluations.            *)
(*  - SpecDoomscroll: the doomscroll detector over consecutive ticks.      *)
(*  - SpecPomodoro: the loop with the Pomodoro timer changing the phase.   *)
(*  - SpecGate: shouldIntervene as a cooldown runs out.                    *)
(*  - SpecReward: the evaluation over every focus delta.                   *)
(*  - SpecUCB: the bandit's choice between arms of equal value.            *)
(*  - SpecSelect: selectIntervention over drawn contexts.                  *)
(*  - SpecQuiet: the scorer on signals without content.                    *)
(*  - SpecSwitches: the scorer over counts of tab switches.                *)
(*  - SpecSignals: the signal handlers, each run to completion.            *)
(*  - SpecStopped: alarm and events around a stopped session.              *)
(*  - SpecHistory: the ticks on histories near the cap.                    *)
(*  - SpecTrend: the trend delta over drawn histories.                     *)
(*  - SpecRestart: the ticks across restarts of the worker.                *)
(*  - SpecArms: the bandit's choice over drawn policies.                   *)
(*  - SpecArmless: the ticks on policies and records without an arm.       *)
(*  - SpecLive: the loop under fairness of clock, alarm and awaits.        *)
(*  - SpecOverlap: the alarm's and the popup's tick in flight together.    *)
(*  - SpecAlarms: the ticks around doomscroll and face-away alarms.        *)
(*  - SpecGentle: the ticks of gentle sessions and mode changes.           *)
(***************************************************************************)
EXTENDS Integers, Sequences, FiniteSets, TLC

\* ------------------------------------------------------------------------
\* Bounds of the model
\* ------------------------------------------------------------------------
\* The clock runs from Epoch to Epoch + MaxElapsedSteps * TimeStep.
MaxElapsedSteps == 3
\* At most MaxTicks tick invocations are started in one behaviour.
MaxTicks == 3
\* At most MaxEvents user and sensor events are delivered in one behaviour.
MaxEvents == 3

\* Date.now() at the start of a behaviour, and the granularity of the clock.
Epoch == 1000 * 1000
TimeStep == 15 * 1000
MaxClock == Epoch + MaxElapsedSteps * TimeStep

\* ------------------------------------------------------------------------
\* Constants of the program
\* ------------------------------------------------------------------------
TICK_INTERVAL_MS == 10000
EVAL_WINDOW_MS == 45000
HISTORY_MAX_ENTRIES == 1000
WINDOW_MS == 60000
DOOMSCROLL_THRESHOLD_SECONDS == 15
DOOMSCROLL_ALARM_COOLDOWN == 30000
FACE_AWAY_ALARM_THRESHOLD_MS == 10000
FACE_AWAY_ALARM_COOLDOWN_MS == 30000

Modes == {"gentle", "normal", "strict"}
Phases == {"study", "break"}

INTERVENTIONS ==
  {"BOOST_ENERGY", "SWITCH_PLAYLIST", "PATTERN_BREAK", "DUCK_VOLUME",
   "WHITE_NOISE", "SMART_RECOMMEND", "VIOLA_POPUP", "NUCLEAR"}

\* COOLDOWNS with a gentle cooldown shorter than the escalation window.
COOLDOWNSGentleShort == [gentle |-> 30000, normal |-> 30000, strict |-> 10000]

COOLDOWNS == [gentle |-> 60000, normal |-> 30000, strict |-> 10000]
THRESHOLDS == [gentle |-> 45, normal |-> 60, strict |-> 75]
TREND_THRESHOLDS == [gentle |-> -15, normal |-> -10, strict |-> -5]

MODE_CONFIG ==
  [gentle |-> [tabSwitchThreshold |-> 15, idleThresholdMs |-> 45000,
               typingBonusPct |-> 10, baseScore |-> 100],
   normal |-> [tabSwitchThreshold |-> 10, idleThresholdMs |-> 30000,
               typingBonusPct |-> 15, baseScore |-> 100],
   strict |-> [tabSwitchThreshold |-> 5, idleThresholdMs |-> 20000,
               typingBonusPct |-> 20, baseScore |-> 100]]

Categories ==
  {"productive", "socialMedia", "entertainment", "games", "shopping",
   "news", "blocked", "neutral"}
BadCategories == {"socialMedia", "entertainment", "games", "blocked"}

\* ------------------------------------------------------------------------
\* Arithmetic helpers
\* ------------------------------------------------------------------------
Min(a, b) == IF a <= b THEN a ELSE b
Max(a, b) == IF a >= b THEN a ELSE b
Abs(a) == IF a < 0 THEN -a ELSE a

\* clamp(x, min, max) = Math.max(min, Math.min(max, x))
clamp(x, lo, hi) == Max(lo, Min(hi, x))

RECURSIVE GCD(_, _)
GCD(a, b) == IF b = 0 THEN a ELSE GCD(b, a % b)

\* Reduced fraction num/den with den > 0.
Rat(n, d) ==
  LET g == GCD(Abs(n), Abs(d))
      s == IF d < 0 THEN -1 ELSE 1
  IN [num |-> (s * n) \div g, den |-> (s * d) \div g]
RatAdd(a, b) == Rat(a.num * b.den + b.num * a.den, a.den * b.den)
RatSub(a, b) == Rat(a.num * b.den - b.num * a.den, a.den * b.den)
RatDivInt(a, k) == Rat(a.num, a.den * k)
RatLe(a, b) == a.num * b.den <= b.num * a.den
RatLt(a, b) == a.num * b.den < b.num * a.den
RatZero == [num |-> 0, den |-> 1]
RatOne == [num |-> 1, den |-> 1]

\* The empty object {}.
EmptyMap == [x \in {} |-> 0]

\* Sum of a sequence of integers.
RECURSIVE SumSeq(_)
SumSeq(s) == IF s = <<>> THEN 0 ELSE Head(s) + SumSeq(Tail(s))

\* ------------------------------------------------------------------------
\* storage.js: site categories
\* ------------------------------------------------------------------------
\* The hostnames the model browses.  Each is a literal entry of
\* SITE_CATEGORIES except example.com, which no list matches.
Hosts == {"docs.google.com", "reddit.com", "example.com"}

\* SITE_CATEGORIES restricted to the modelled hostnames.
SITE_CATEGORIES ==
  [productive |-> {"docs.google.com"},
   socialMedia |-> {"reddit.com"},
   entertainment |-> {},
   games |-> {},
   shopping |-> {},
   news |-> {}]

\* Object.entries order of SITE_CATEGORIES.
CategoryOrder ==
  <<"productive", "socialMedia", "entertainment", "games", "shopping", "news">>

\* categorizeSite(hostname, settings): custom overrides first, then the
\* first built-in category that lists the hostname, else neutral.
categorizeSite(hostname, settings) ==
  IF hostname = "null" THEN "neutral"
  ELSE IF hostname \in settings.customBlocked THEN "blocked"
  ELSE IF hostname \in settings.customProductive THEN "productive"
  ELSE LET hits == {i \in 1..Len(CategoryOrder) :
                      hostname \in SITE_CATEGORIES[CategoryOrder[i]]}
       IN IF hits = {} THEN "neutral"
          ELSE CategoryOrder[CHOOSE i \in hits : \A j \in hits : i <= j]

\* Categories categorizeSiteWithAI can answer (validCategories).
AiCategories ==
  {"productive", "socialMedia", "entertainment", "games", "shopping",
   "news", "neutral"}

\* getCategoryPenalty(category, mode) in hundredths (0.15 is written 15).
CategoryPenaltyTable ==
  [gentle |-> [productive |-> 15, socialMedia |-> -30, entertainment |-> -25,
               games |-> -35, shopping |-> -10, news |-> -5, blocked |-> -50,
               neutral |-> 0],
   normal |-> [productive |-> 20, socialMedia |-> -50, entertainment |-> -40,
               games |-> -60, shopping |-> -20, news |-> -10, blocked |-> -70,
               neutral |-> 0],
   strict |-> [productive |-> 25, socialMedia |-> -80, entertainment |-> -70,
               games |-> -100, shopping |-> -40, news |-> -20,
               blocked |-> -100, neutral |-> -5]]

getCategoryPenalty(category, mode) ==
  IF mode \in Modes /\ category \in Categories
  THEN CategoryPenaltyTable[mode][category]
  ELSE 0

\* ------------------------------------------------------------------------
\* focus_model.js: focus score and trend
\* ------------------------------------------------------------------------
\* Scores are carried in units of 1/ScoreScale; every divisor the scorer
\* uses (15, 10, 5, 20, 100, 60000, 300000/20, 30000/15, 60000/25) divides it.
ScoreScale == 60 * 1000

\* pruneTimestamps(arr, now): keep t > now - WINDOW_MS.
pruneTimestamps(arr, nowv) ==
  LET cutoff == nowv - WINDOW_MS
      Keep(t) == t > cutoff
  IN SelectSeq(arr, Keep)

\* Sum of totalMs over the bad-category entries of siteTime.
RECURSIVE BadSiteTime(_, _)
BadSiteTime(siteTime, hs) ==
  IF hs = {} THEN 0
  ELSE LET h == CHOOSE x \in hs : TRUE
       IN (IF siteTime[h].category \in BadCategories
           THEN siteTime[h].totalMs ELSE 0)
          + BadSiteTime(siteTime, hs \ {h})

\* Math.round of a value given in units of 1/ScoreScale (half rounds up).
RoundScaled(x) == (x + ScoreScale \div 2) \div ScoreScale

\* The tab-switch penalty without clamp01.
TabPenaltyUncapped(switchRate, config) ==
  (35 * ScoreScale * switchRate) \div config.tabSwitchThreshold

\* "clamp01(switchRate / config.tabSwitchThreshold) * 35"
TabPenalty(switchRate, config) ==
  (35 * ScoreScale * clamp(switchRate, 0, config.tabSwitchThreshold))
    \div config.tabSwitchThreshold

\* idleMs without the test for a missing timestamp.
IdleMsUnguarded(signals, nowv) ==
  nowv - Max(signals.lastMouseMove, signals.lastKeyPress)

\* "const idleMs = lastActivity > 0 ? now - lastActivity : 0", with
\* lastActivity the later of lastMouseMove and lastKeyPress.
IdleMs(signals, nowv) ==
  LET lastActivity == Max(signals.lastMouseMove, signals.lastKeyPress)
  IN IF lastActivity > 0 THEN nowv - lastActivity ELSE 0

\* computeFocusScore(signals, settings, mode) up to "FINAL SCORE", with nowv
\* its Date.now(): the itemized penalties and bonuses and the score before
\* rounding, all in units of 1/ScoreScale.
FocusScoreParts(signals, mode, nowv) ==
  LET config == IF mode \in Modes THEN MODE_CONFIG[mode] ELSE MODE_CONFIG.normal
      \* 1. tab switching
      recentSwitches == pruneTimestamps(signals.tabSwitches, nowv)
      switchRate == Len(recentSwitches)
      tabPenalty == TabPenalty(switchRate, config)
      \* 2. site category
      currentCategory ==
        IF signals.currentCategory = "null" THEN "neutral"
        ELSE signals.currentCategory
      categoryMultiplier == getCategoryPenalty(currentCategory, mode)
      sitePenalty == (Abs(categoryMultiplier) * 50 * ScoreScale) \div 100
      siteBonus == (categoryMultiplier * 20 * ScoreScale) \div 100
      \* 3. idle
      idleMs == IdleMs(signals, nowv)
      idleApplies == idleMs > config.idleThresholdMs
      idlePenalty ==
        20 * (ScoreScale \div 60000)
          * clamp(idleMs - config.idleThresholdMs, 0, 60000)
      \* 4. typing
      typingBonus == (config.typingBonusPct * 15 * ScoreScale) \div 100
      \* 5. doomscrolling
      isBadSite == currentCategory \in BadCategories
      doomApplies == isBadSite /\ signals.scrollCount > 5
      doomPenalty == (25 * ScoreScale * clamp(signals.scrollCount, 0, 20)) \div 20
      \* 6. prolonged bad site
      badSiteTimeMs == BadSiteTime(signals.siteTime, DOMAIN signals.siteTime)
      prolongedApplies == badSiteTimeMs > 30000
      prolongedPenalty ==
        ((20 * ScoreScale) \div 300000) * clamp(badSiteTimeMs, 0, 300000)
      \* 7. strict mode extras (not itemized)
      strictSite ==
        IF mode = "strict" /\ currentCategory # "productive"
        THEN 5 * ScoreScale ELSE 0
      strictIdle ==
        IF mode = "strict" /\ ~signals.isActivelyTyping /\ idleMs > 10000
        THEN 5 * ScoreScale ELSE 0
      \* 8. vision
      faceApplies ==
        signals.visionEnabled /\ ~signals.facePresent
          /\ signals.faceMissingMs > 10000
      faceMissingPenalty ==
        25 * (ScoreScale \div 60000)
          * clamp(signals.faceMissingMs - 10000, 0, 60000)
      lookApplies ==
        signals.visionEnabled /\ signals.lookingAway
          /\ signals.lookingAwayMs > 5000
      lookingAwayPenalty ==
        15 * (ScoreScale \div 30000)
          * clamp(signals.lookingAwayMs - 5000, 0, 30000)
      visionApplies ==
        signals.visionEnabled /\ signals.facePresent /\ ~signals.lookingAway
          /\ signals.visionAttentionPct > 70
      visionBonus == 5 * ScoreScale
      penalties ==
        (IF tabPenalty > 0
         THEN <<[type |-> "tabSwitch", value |-> tabPenalty]>> ELSE <<>>)
        \o (IF categoryMultiplier < 0
            THEN <<[type |-> "badSite", value |-> sitePenalty]>> ELSE <<>>)
        \o (IF idleApplies
            THEN <<[type |-> "idle", value |-> idlePenalty]>> ELSE <<>>)
        \o (IF doomApplies
            THEN <<[type |-> "doomscroll", value |-> doomPenalty]>> ELSE <<>>)
        \o (IF prolongedApplies
            THEN <<[type |-> "prolongedBadSite", value |-> prolongedPenalty]>>
            ELSE <<>>)
        \o (IF faceApplies
            THEN <<[type |-> "faceAway", value |-> faceMissingPenalty]>>
            ELSE <<>>)
        \o (IF lookApplies
            THEN <<[type |-> "lookingAway", value |-> lookingAwayPenalty]>>
            ELSE <<>>)
      bonuses ==
        (IF categoryMultiplier > 0
         THEN <<[type |-> "goodSite", value |-> siteBonus]>> ELSE <<>>)
        \o (IF signals.isActivelyTyping
            THEN <<[type |-> "typing", value |-> typingBonus]>> ELSE <<>>)
        \o (IF visionApplies
            THEN <<[type |-> "visuallyFocused", value |-> visionBonus]>>
            ELSE <<>>)
      score ==
        config.baseScore * ScoreScale
          - SumSeq([i \in 1..Len(penalties) |-> penalties[i].value])
          + SumSeq([i \in 1..Len(bonuses) |-> bonuses[i].value])
          - strictSite - strictIdle
  IN [score |-> score, penalties |-> penalties, bonuses |-> bonuses]

\* computeFocusScore with the final score left as Math.round(score).
computeFocusScoreUnclamped(signals, mode, nowv) ==
  LET parts == FocusScoreParts(signals, mode, nowv)
  IN [score |-> RoundScaled(parts.score),
      penalties |-> parts.penalties,
      bonuses |-> parts.bonuses]

\* computeFocusScore(signals, settings, mode), with nowv its Date.now():
\* "const finalScore = clamp(Math.round(score), 0, 100)".
computeFocusScore(signals, mode, nowv) ==
  LET parts == FocusScoreParts(signals, mode, nowv)
  IN [score |-> clamp(RoundScaled(parts.score), 0, 100),
      penalties |-> parts.penalties,
      bonuses |-> parts.bonuses]

\* computeTrendDelta over the whole history, without the cutoff.
computeTrendDeltaWholeHistory(history, nowv) ==
  IF Len(history) < 2 THEN 0
  ELSE history[Len(history)].score - history[1].score

\* computeTrendDelta(history, now)
computeTrendDelta(history, nowv) ==
  LET cutoff == nowv - 30000
      Recent(h) == h.timestamp > cutoff
      recent == SelectSeq(history, Recent)
  IN IF Len(recent) < 2 THEN 0
     ELSE recent[Len(recent)].score - recent[1].score

\* ------------------------------------------------------------------------
\* decision_engine.js
\* ------------------------------------------------------------------------
\* A cleared lastIntervention (null).
NoIntervention == [type |-> "null", appliedAt |-> 0, preScore |-> 0]

\* DEFAULT_STATE.policy: the arms in insertion order, with their priors.
DefaultArms ==
  << [name |-> "BOOST_ENERGY", value |-> Rat(1, 2), n |-> 1],
     [name |-> "SWITCH_PLAYLIST", value |-> Rat(1, 2), n |-> 1],
     [name |-> "PATTERN_BREAK", value |-> Rat(1, 2), n |-> 1],
     [name |-> "SMART_RECOMMEND", value |-> Rat(3, 5), n |-> 1],
     [name |-> "NUCLEAR", value |-> Rat(1, 5), n |-> 1] >>
DefaultPolicy == [arms |-> DefaultArms]

\* The not-studying test with the phase left out.
NotStudyingActiveOnly(session) == ~session.active

\* "if (!session.active || session.phase !== 'study')"
NotStudying(session) == ~session.active \/ session.phase # "study"

\* The cooldown test without the elapsed time: a record blocks as long as
\* it is there.
InCooldownForever(state, nowv) ==
  state.lastIntervention # NoIntervention

\* The cooldown test with the boundary counted as inside the cooldown.
InCooldownInclusive(state, nowv) ==
  /\ state.lastIntervention # NoIntervention
  /\ nowv - state.lastIntervention.appliedAt <= COOLDOWNS[state.session.mode]

\* "if (lastIntervention && now - lastIntervention.appliedAt < cooldown)"
InCooldown(state, nowv) ==
  /\ state.lastIntervention # NoIntervention
  /\ nowv - state.lastIntervention.appliedAt < COOLDOWNS[state.session.mode]

\* shouldIntervene with the trend test ahead of the score test.
shouldInterveneTrendFirst(state, nowv) ==
  IF NotStudying(state.session)
  THEN [should |-> FALSE, reason |-> "not_studying"]
  ELSE IF InCooldown(state, nowv)
  THEN [should |-> FALSE, reason |-> "cooldown"]
  ELSE IF state.metrics.trendDelta < TREND_THRESHOLDS[state.session.mode]
  THEN [should |-> TRUE, reason |-> "dropping_focus"]
  ELSE IF state.metrics.focusScore < THRESHOLDS[state.session.mode]
  THEN [should |-> TRUE, reason |-> "low_focus"]
  ELSE IF state.session.mode = "strict" /\ state.signals.isDoomscrolling
  THEN [should |-> TRUE, reason |-> "doomscrolling"]
  ELSE [should |-> FALSE, reason |-> "focused"]

\* shouldIntervene(state, now)
shouldIntervene(state, nowv) ==
  IF NotStudying(state.session)
  THEN [should |-> FALSE, reason |-> "not_studying"]
  ELSE IF InCooldown(state, nowv)
  THEN [should |-> FALSE, reason |-> "cooldown"]
  ELSE IF state.metrics.focusScore < THRESHOLDS[state.session.mode]
  THEN [should |-> TRUE, reason |-> "low_focus"]
  ELSE IF state.metrics.trendDelta < TREND_THRESHOLDS[state.session.mode]
  THEN [should |-> TRUE, reason |-> "dropping_focus"]
  ELSE IF state.session.mode = "strict" /\ state.signals.isDoomscrolling
  THEN [should |-> TRUE, reason |-> "doomscrolling"]
  ELSE [should |-> FALSE, reason |-> "focused"]

\* Natural logarithms of 1..24 in units of 1/10000 (Math.log).
LnTable ==
  << 0, 6931, 10986, 13863, 16094, 17918, 19459, 20794, 21972, 23026,
     23979, 24849, 25649, 26391, 27081, 27726, 28332, 28904, 29444, 29957,
     30445, 30910, 31355, 31781 >>

\* Integer square root (Math.sqrt on the fixed-point scale).
RECURSIVE ISqrtIter(_, _, _)
ISqrtIter(x, lo, hi) ==
  IF lo >= hi THEN lo
  ELSE LET mid == (lo + hi + 1) \div 2
       IN IF mid * mid <= x THEN ISqrtIter(x, mid, hi)
          ELSE ISqrtIter(x, lo, mid - 1)
ISqrt(x) == ISqrtIter(x, 0, 46340)

\* The UCB score without the exploration bonus.
ucbScoreValueOnly(arm, totalN) ==
  (arm.value.num * 10000) \div arm.value.den

\* arm.value + sqrt(2 * ln(totalN + 1) / arm.n), in units of 1/10000.
ucbScore(arm, totalN) ==
  (arm.value.num * 10000) \div arm.value.den
    + ISqrt((2 * LnTable[totalN + 1] * 10000) \div arm.n)

\* The loop of selectArmUCB over arms[i..]: a strictly higher score
\* replaces the best so far; 0 stands for "no arm yet" (best = null).
RECURSIVE UCBLoop(_, _, _, _, _, _)
UCBLoop(arms, i, totalN, excludeNuclear, best, bestScore) ==
  IF i > Len(arms) THEN best
  ELSE IF excludeNuclear /\ arms[i].name = "NUCLEAR"
  THEN UCBLoop(arms, i + 1, totalN, excludeNuclear, best, bestScore)
  ELSE LET sc == ucbScore(arms[i], totalN)
       IN IF best = 0 \/ sc > bestScore
          THEN UCBLoop(arms, i + 1, totalN, excludeNuclear, i, sc)
          ELSE UCBLoop(arms, i + 1, totalN, excludeNuclear, best, bestScore)

\* selectArmUCB with totalN summed over the eligible arms only.
selectArmUCBEligibleTotal(policy, excludeNuclear) ==
  LET arms == policy.arms
      totalN == SumSeq([i \in 1..Len(arms) |->
                          IF excludeNuclear /\ arms[i].name = "NUCLEAR"
                          THEN 0 ELSE arms[i].n])
      best == UCBLoop(arms, 1, totalN, excludeNuclear, 0, 0)
  IN IF best = 0 THEN "BOOST_ENERGY" ELSE arms[best].name

\* selectArmUCB(policy, excludeNuclear)
selectArmUCB(policy, excludeNuclear) ==
  LET arms == policy.arms
      totalN == SumSeq([i \in 1..Len(arms) |-> arms[i].n])
      best == UCBLoop(arms, 1, totalN, excludeNuclear, 0, 0)
  IN IF best = 0 THEN "BOOST_ENERGY" ELSE arms[best].name

\* The nuclear condition with the mode left out.
NuclearArmedAnyMode(state, isDoomscrolling) ==
  isDoomscrolling /\ state.settings.nuclearEnabled

\* "if (isDoomscrolling && session.mode === 'strict' &&
\* settings.nuclearEnabled)"
NuclearArmed(state, isDoomscrolling) ==
  isDoomscrolling /\ state.session.mode = "strict"
    /\ state.settings.nuclearEnabled

\* selectIntervention with the escalation test ahead of the nuclear test.
selectInterventionEscalationFirst(state, isDoomscrolling, nowv) ==
  LET last == state.lastIntervention
      isEscalating ==
        /\ last # NoIntervention
        /\ nowv - last.appliedAt < 60000
        /\ last.type # "VIOLA_POPUP"
        /\ last.type # "NUCLEAR"
      autoMusicEnabled == state.settings.autoMusicSwitch
      autoThreshold ==
        IF state.settings.autoMusicThreshold = 0 THEN 50
        ELSE state.settings.autoMusicThreshold
      onBadSite ==
        isDoomscrolling \/ state.signals.currentCategory \in BadCategories
  IN IF isEscalating /\ state.metrics.focusScore < 50
     THEN "VIOLA_POPUP"
     ELSE IF NuclearArmed(state, isDoomscrolling)
     THEN "NUCLEAR"
     ELSE IF state.metrics.focusScore < 30 /\ isDoomscrolling
     THEN "WHITE_NOISE"
     ELSE IF autoMusicEnabled /\ state.metrics.focusScore < autoThreshold
             /\ ~onBadSite
     THEN "SMART_RECOMMEND"
     ELSE selectArmUCB(state.policy, TRUE)

\* selectIntervention(state, isDoomscrolling), with nowv its Date.now().
selectIntervention(state, isDoomscrolling, nowv) ==
  LET last == state.lastIntervention
      isEscalating ==
        /\ last # NoIntervention
        /\ nowv - last.appliedAt < 60000
        /\ last.type # "VIOLA_POPUP"
        /\ last.type # "NUCLEAR"
      autoMusicEnabled == state.settings.autoMusicSwitch
      autoThreshold ==
        IF state.settings.autoMusicThreshold = 0 THEN 50
        ELSE state.settings.autoMusicThreshold
      onBadSite ==
        isDoomscrolling \/ state.signals.currentCategory \in BadCategories
  IN IF NuclearArmed(state, isDoomscrolling)
     THEN "NUCLEAR"
     ELSE IF isEscalating /\ state.metrics.focusScore < 50
     THEN "VIOLA_POPUP"
     ELSE IF state.metrics.focusScore < 30 /\ isDoomscrolling
     THEN "WHITE_NOISE"
     ELSE IF autoMusicEnabled /\ state.metrics.focusScore < autoThreshold
             /\ ~onBadSite
     THEN "SMART_RECOMMEND"
     ELSE selectArmUCB(state.policy, TRUE)

\* deltaToReward without Math.max / Math.min.
deltaToRewardUnclamped(focusDelta) == Rat(focusDelta + 15, 30)

\* deltaToReward(focusDelta) = max(0, min(1, (focusDelta + 15) / 30))
deltaToReward(focusDelta) ==
  LET x == Rat(focusDelta + 15, 30)
      m == IF RatLe(RatOne, x) THEN RatOne ELSE x
  IN IF RatLe(m, RatZero) THEN RatZero ELSE m

\* updateBanditArm dividing by the count before the increment.
updateBanditArmOldCount(policy, armName, reward) ==
  [arms |->
     [i \in 1..Len(policy.arms) |->
        LET arm == policy.arms[i]
        IN IF arm.name = armName
           THEN [name |-> arm.name,
                 n |-> arm.n + 1,
                 value |-> RatAdd(arm.value,
                                  RatDivInt(RatSub(reward, arm.value),
                                            arm.n))]
           ELSE arm]]

\* updateBanditArm creating the arm it does not find.
updateBanditArmCreating(policy, armName, reward) ==
  IF \E i \in 1..Len(policy.arms) : policy.arms[i].name = armName
  THEN [arms |->
          [i \in 1..Len(policy.arms) |->
             LET arm == policy.arms[i]
             IN IF arm.name = armName
                THEN [name |-> arm.name,
                      n |-> arm.n + 1,
                      value |-> RatAdd(arm.value,
                                       RatDivInt(RatSub(reward, arm.value),
                                                 arm.n + 1))]
                ELSE arm]]
  ELSE [arms |-> Append(policy.arms,
                        [name |-> armName, value |-> reward, n |-> 1])]

\* updateBanditArm(policy, armName, reward)
updateBanditArm(policy, armName, reward) ==
  [arms |->
     [i \in 1..Len(policy.arms) |->
        LET arm == policy.arms[i]
        IN IF arm.name = armName
           THEN [name |-> arm.name,
                 n |-> arm.n + 1,
                 value |-> RatAdd(arm.value,
                                  RatDivInt(RatSub(reward, arm.value),
                                            arm.n + 1))]
           ELSE arm]]

\* evaluateIntervention(state, currentScore)
evaluateIntervention(state, currentScore) ==
  IF state.lastIntervention = NoIntervention
  THEN [evaluated |-> FALSE, policy |-> state.policy]
  ELSE [evaluated |-> TRUE,
        policy |->
          updateBanditArm(state.policy, state.lastIntervention.type,
            deltaToReward(currentScore - state.lastIntervention.preScore))]

\* ------------------------------------------------------------------------
\* storage.js: the persisted state blob
\* ------------------------------------------------------------------------
\* metrics.focusTrend (an EMA that no decision reads), the music and
\* dailyStats sections are not carried.
DefaultSignals ==
  [tabSwitches |-> <<>>,
   siteTime |-> EmptyMap,
   currentSite |-> "null",
   currentCategory |-> "null",
   lastActivity |-> 0,
   lastMouseMove |-> 0,
   lastKeyPress |-> 0,
   lastScroll |-> 0,
   keyPressCount |-> 0,
   scrollCount |-> 0,
   isIdle |-> FALSE,
   isActivelyTyping |-> FALSE,
   isDoomscrolling |-> FALSE,
   visionEnabled |-> FALSE,
   facePresent |-> FALSE,
   lookingAway |-> FALSE,
   visionAttentionPct |-> 0,
   faceMissingMs |-> 0,
   lookingAwayMs |-> 0]

DefaultSettings ==
  [customProductive |-> {},
   customBlocked |-> {},
   nuclearEnabled |-> FALSE,
   autoMusicSwitch |-> TRUE,
   autoMusicThreshold |-> 50]

DEFAULT_STATE ==
  [session |-> [active |-> FALSE, mode |-> "normal", phase |-> "study",
                startedAt |-> 0],
   signals |-> DefaultSignals,
   metrics |-> [focusScore |-> 100, trendDelta |-> 0],
   lastIntervention |-> NoIntervention,
   policy |-> DefaultPolicy,
   settings |-> DefaultSettings,
   music |-> [recentlyRecommended |-> <<>>],
   history |-> <<>>]

\* ------------------------------------------------------------------------
\* service_worker.js: state
\* ------------------------------------------------------------------------
\* The two callers of tick(): the 'focus-tick' alarm and the popup's TICK
\* message.
Tickers == {"alarm", "popup"}

VARIABLES
  stored,       \* chrome.storage.local 'state'
  clock,        \* Date.now()
  mem,          \* module-level variables of the service worker
  ticks,        \* the tick() invocation of each caller: position and locals
  tabChange,    \* the handleTabChange() invocation: position and locals
  nTicks,       \* number of tick() invocations started
  nEvents,      \* number of user and sensor events delivered
  dispatchLog,  \* history: the successful dispatches of the current session
  evals         \* history: Intervention Record -> times it was evaluated

vars ==
  <<stored, clock, mem, ticks, tabChange, nTicks, nEvents, dispatchLog, evals>>

InitMem ==
  [currentTabUrl |-> "null",
   aiCategoryCache |-> EmptyMap,
   doomscrollSeconds |-> 0,
   lastDoomscrollAlarm |-> 0,
   lastFaceAwayAlarm |-> 0,
   faceMissingMs |-> 0,
   lookingAwayMs |-> 0]

IdleTick ==
  [pc |-> "idle", now |-> 0, state |-> DEFAULT_STATE,
   interventionType |-> "null", evaluated |-> FALSE]

IdleTabChange ==
  [pc |-> "idle", now |-> 0, state |-> DEFAULT_STATE,
   newUrl |-> "null", previousUrl |-> "null"]

Init ==
  /\ stored = DEFAULT_STATE
  /\ clock = Epoch
  /\ mem = InitMem
  /\ ticks = [k \in Tickers |-> IdleTick]
  /\ tabChange = IdleTabChange
  /\ nTicks = 0
  /\ nEvents = 0
  /\ dispatchLog = <<>>
  /\ evals = EmptyMap

\* Time passes by d milliseconds.
Advance(d) ==
  /\ clock + d <= MaxClock
  /\ clock' = clock + d
  /\ UNCHANGED <<tabChange, stored, mem, ticks, nTicks, nEvents, dispatchLog, evals>>

\* ------------------------------------------------------------------------
\* service_worker.js: session control
\* ------------------------------------------------------------------------
\* startSession(mode); url is the active tab chrome.tabs.query reports
\* ("null": no tab or no url, currentTabUrl is kept).
StartSession(mode, url) ==
  /\ nEvents < MaxEvents
  /\ ~stored.session.active
  /\ stored' =
       [stored EXCEPT
          !.session = [active |-> TRUE, mode |-> mode, phase |-> "study",
                       startedAt |-> clock],
          !.signals = [DefaultSignals EXCEPT !.lastMouseMove = clock,
                                             !.lastKeyPress = clock,
                                             !.lastScroll = clock],
          !.metrics = [focusScore |-> 100, trendDelta |-> 0],
          !.lastIntervention = NoIntervention,
          !.history = <<>>]
  /\ mem' = IF url = "null" THEN mem ELSE [mem EXCEPT !.currentTabUrl = url]
  /\ dispatchLog' = <<>>
  /\ nEvents' = nEvents + 1
  /\ UNCHANGED <<tabChange, clock, ticks, nTicks, evals>>

\* stopSession()
StopSession ==
  /\ nEvents < MaxEvents
  /\ stored.session.active
  /\ stored' = [stored EXCEPT !.session.active = FALSE]
  /\ mem' = [mem EXCEPT !.currentTabUrl = "null"]
  /\ nEvents' = nEvents + 1
  /\ UNCHANGED <<tabChange, clock, ticks, nTicks, dispatchLog, evals>>

\* ------------------------------------------------------------------------
\* service_worker.js: signal handlers
\* ------------------------------------------------------------------------
\* URLs are written by their hostname; "null" is a URL new URL() rejects
\* (or a tab without url).
Hostname(url) == url

\* DEFAULT_DOOMSCROLL_SITES restricted to the modelled hostnames.
DEFAULT_DOOMSCROLL_SITES == {"reddit.com"}
isDoomscrollUrl(url) == url # "null" /\ Hostname(url) \in DEFAULT_DOOMSCROLL_SITES

\* obj[key] = value on an object used as a map.
MapPut(m, key, value) ==
  [x \in DOMAIN m \cup {key} |-> IF x = key THEN value ELSE m[x]]

\* The signals handleTabChange(newUrl) leaves, given the loaded signals,
\* the previous currentTabUrl and the category smartCategorizeSite returned.
TabChangeSignals(sig, previousUrl, newUrl, category, nowv) ==
  LET switches == pruneTimestamps(Append(sig.tabSwitches, nowv), nowv)
      prevHost == sig.currentSite
      closePrev ==
        /\ previousUrl # "null"
        /\ prevHost # "null"
        /\ prevHost \in DOMAIN sig.siteTime
        /\ sig.siteTime[prevHost].lastStart # 0
      st1 ==
        IF closePrev
        THEN [sig.siteTime EXCEPT
                ![prevHost].totalMs = @ + (nowv - sig.siteTime[prevHost].lastStart),
                ![prevHost].lastStart = 0]
        ELSE sig.siteTime
      hostname == Hostname(newUrl)
      entry ==
        IF hostname \in DOMAIN st1 THEN st1[hostname]
        ELSE [category |-> category, totalMs |-> 0, lastStart |-> 0]
      st2 ==
        IF hostname # "null"
        THEN MapPut(st1, hostname, [entry EXCEPT !.lastStart = nowv])
        ELSE st1
  IN [sig EXCEPT !.tabSwitches = switches,
                 !.siteTime = st2,
                 !.currentSite = hostname,
                 !.currentCategory = category,
                 !.lastActivity = nowv]

\* The state handleTabChange saves, with the record cleared as well.
TabChangeSavedClearingRecord(state, signals) ==
  [state EXCEPT !.signals = signals, !.lastIntervention = NoIntervention]

\* The state handleTabChange saves: the state it loaded with the signals
\* it has reassigned ("state.signals.x = ...; await saveState(state)").
TabChangeSaved(state, signals) ==
  [state EXCEPT !.signals = signals]

\* handleTabChange(newUrl), up to the await of smartCategorizeSite:
\* "const now = Date.now(); const state = await loadState();
\* if (!state.session.active) return; const previousUrl = currentTabUrl;
\* currentTabUrl = newUrl;"
TabChangeStart(newUrl) ==
  /\ tabChange.pc = "idle"
  /\ nEvents < MaxEvents
  /\ nEvents' = nEvents + 1
  /\ IF stored.session.active
     THEN /\ tabChange' = [pc |-> "categorizing", now |-> clock,
                           state |-> stored, newUrl |-> newUrl,
                           previousUrl |-> mem.currentTabUrl]
          /\ mem' = [mem EXCEPT !.currentTabUrl = newUrl]
     ELSE UNCHANGED <<tabChange, mem>>
  /\ UNCHANGED <<stored, clock, ticks, nTicks, dispatchLog, evals>>

\* handleTabChange(newUrl), from the answer of smartCategorizeSite to
\* saveState(state); aiAnswer is what categorizeSiteWithAI answers for a
\* hostname the built-in lists do not know.
TabChangeFinish(aiAnswer) ==
  /\ tabChange.pc = "categorizing"
  /\ LET t == tabChange
         hostname == Hostname(t.newUrl)
         hard == categorizeSite(hostname, t.state.settings)
         useAi == hostname # "null" /\ hard = "neutral"
         cached == hostname \in DOMAIN mem.aiCategoryCache
         category ==
           IF hostname = "null" THEN "neutral"
           ELSE IF ~useAi THEN hard
           ELSE IF cached THEN mem.aiCategoryCache[hostname]
           ELSE aiAnswer
     IN /\ stored' =
             TabChangeSaved(t.state,
                            TabChangeSignals(t.state.signals, t.previousUrl,
                                             t.newUrl, category, t.now))
        /\ mem' =
             [mem EXCEPT
                !.aiCategoryCache =
                   IF useAi /\ ~cached THEN MapPut(@, hostname, aiAnswer) ELSE @]
  /\ tabChange' = IdleTabChange
  /\ UNCHANGED <<clock, ticks, nTicks, nEvents, dispatchLog, evals>>

\* The ACTIVITY_REPORT message the activity tracker builds from its counters.
ActivityMsg(host, msMouse, msKey, msScroll, keyCount, scrollCnt) ==
  [hostname |-> host,
   msSinceMouseMove |-> msMouse,
   msSinceKeyPress |-> msKey,
   msSinceScroll |-> msScroll,
   keyPressCount |-> keyCount,
   scrollCount |-> scrollCnt,
   isIdle |-> (msMouse > 30000 /\ msKey > 30000),
   isActivelyTyping |-> keyCount > 10,
   isScrolling |-> scrollCnt > 5]

\* handleActivityReport(message)
HandleActivityReport(msg) ==
  IF ~stored.session.active THEN UNCHANGED vars
  ELSE
    LET sig == stored.signals
        isBadSite == sig.currentCategory \in BadCategories
        newSite == msg.hostname # "null" /\ msg.hostname # sig.currentSite
    IN /\ nEvents < MaxEvents
       /\ stored' =
            [stored EXCEPT
               !.signals =
                  [sig EXCEPT
                     !.lastMouseMove = clock - msg.msSinceMouseMove,
                     !.lastKeyPress = clock - msg.msSinceKeyPress,
                     !.lastScroll = clock - msg.msSinceScroll,
                     !.isIdle = msg.isIdle,
                     !.isActivelyTyping = msg.isActivelyTyping,
                     !.keyPressCount = msg.keyPressCount,
                     !.scrollCount = msg.scrollCount,
                     !.isDoomscrolling = isBadSite /\ msg.isScrolling,
                     !.currentSite = IF newSite THEN msg.hostname ELSE @,
                     !.currentCategory =
                        IF newSite
                        THEN categorizeSite(msg.hostname, stored.settings)
                        ELSE @]]
       /\ nEvents' = nEvents + 1
       /\ UNCHANGED <<tabChange, clock, mem, ticks, nTicks, dispatchLog, evals>>

\* handleVisionSignal(message)
HandleVisionSignal(msg) ==
  IF ~stored.session.active THEN UNCHANGED vars
  ELSE
    LET faceMs ==
          IF ~msg.facePresent
          THEN (IF msg.faceMissingMs # 0 THEN msg.faceMissingMs
                ELSE mem.faceMissingMs + 250)
          ELSE 0
        lookMs ==
          IF msg.lookingAway
          THEN (IF msg.lookingAwayMs # 0 THEN msg.lookingAwayMs
                ELSE mem.lookingAwayMs + 250)
          ELSE 0
        alarm ==
          /\ ~msg.facePresent
          /\ faceMs >= FACE_AWAY_ALARM_THRESHOLD_MS
          /\ clock - mem.lastFaceAwayAlarm > FACE_AWAY_ALARM_COOLDOWN_MS
    IN /\ nEvents < MaxEvents
       /\ stored' =
            [stored EXCEPT
               !.signals =
                  [@ EXCEPT !.visionEnabled = TRUE,
                            !.facePresent = msg.facePresent,
                            !.lookingAway = msg.lookingAway,
                            !.visionAttentionPct = msg.attentionPct,
                            !.faceMissingMs = faceMs,
                            !.lookingAwayMs = lookMs]]
       /\ mem' = [mem EXCEPT !.faceMissingMs = faceMs,
                             !.lookingAwayMs = lookMs,
                             !.lastFaceAwayAlarm = IF alarm THEN clock ELSE @]
       /\ nEvents' = nEvents + 1
       /\ UNCHANGED <<tabChange, clock, ticks, nTicks, dispatchLog, evals>>

\* handlePomodoroEnd(): the work phase ends and the break starts, or the
\* break ends and work resumes.  (The length of the timer is not modelled;
\* session.pomodoroStartedAt is not carried.)
HandlePomodoroEnd ==
  /\ nEvents < MaxEvents
  /\ stored' =
       [stored EXCEPT
          !.session.phase = IF @ = "study" THEN "break" ELSE "study"]
  /\ nEvents' = nEvents + 1
  /\ UNCHANGED <<tabChange, clock, mem, ticks, nTicks, dispatchLog, evals>>

\* ------------------------------------------------------------------------
\* options.js
\* ------------------------------------------------------------------------
\* The save-settings click handler: cfg holds the values of the form.
\* (Saving a form that changes nothing is left out: it rewrites the blob
\* it has read.)
SaveSettings(cfg) ==
  /\ nEvents < MaxEvents
  /\ \E f \in DOMAIN cfg : cfg[f] # stored.settings[f]
  /\ stored' =
       [stored EXCEPT
          !.settings = [@ EXCEPT !.customProductive = cfg.customProductive,
                                 !.customBlocked = cfg.customBlocked,
                                 !.nuclearEnabled = cfg.nuclearEnabled,
                                 !.autoMusicSwitch = cfg.autoMusicSwitch,
                                 !.autoMusicThreshold = cfg.autoMusicThreshold]]
  /\ nEvents' = nEvents + 1
  /\ UNCHANGED <<tabChange, clock, mem, ticks, nTicks, dispatchLog, evals>>

\* The clear-history ("Reset Learning Model") click handler.  (A reset of
\* an already pristine policy and history is left out.)
ResetLearning ==
  /\ nEvents < MaxEvents
  /\ stored.policy # DefaultPolicy \/ stored.history # <<>>
  /\ stored' = [stored EXCEPT !.history = <<>>, !.policy = DefaultPolicy]
  /\ nEvents' = nEvents + 1
  /\ UNCHANGED <<tabChange, clock, mem, ticks, nTicks, dispatchLog, evals>>

\* ------------------------------------------------------------------------
\* service_worker.js: the tick
\* ------------------------------------------------------------------------
\* updateDoomscrollDetection(state): the module variables it leaves.
DoomscrollDetection(m, settings, nowv) ==
  IF isDoomscrollUrl(m.currentTabUrl)
  THEN LET secs == m.doomscrollSeconds + TICK_INTERVAL_MS \div 1000
           fire == /\ secs >= DOOMSCROLL_THRESHOLD_SECONDS
                   /\ nowv - m.lastDoomscrollAlarm > DOOMSCROLL_ALARM_COOLDOWN
       IN [m EXCEPT
             !.doomscrollSeconds =
                IF fire THEN DOOMSCROLL_THRESHOLD_SECONDS ELSE secs,
             !.lastDoomscrollAlarm = IF fire THEN nowv ELSE @]
  ELSE [m EXCEPT
          !.doomscrollSeconds =
             Max(0, @ - (TICK_INTERVAL_MS \div 1000) * 2)]

\* updateDoomscrollDetection(state): the sounds it plays through playAlarm.
DoomscrollSounds(m, settings, nowv) ==
  LET secs == m.doomscrollSeconds + TICK_INTERVAL_MS \div 1000
      fire == /\ isDoomscrollUrl(m.currentTabUrl)
              /\ secs >= DOOMSCROLL_THRESHOLD_SECONDS
              /\ nowv - m.lastDoomscrollAlarm > DOOMSCROLL_ALARM_COOLDOWN
  IN IF ~fire THEN {}
     ELSE IF settings.nuclearEnabled
             /\ secs > DOOMSCROLL_THRESHOLD_SECONDS * 2
     THEN {"PLAY_ALARM", "PLAY_NUCLEAR"}
     ELSE {"PLAY_ALARM"}

\* "Update site time for current site" (tick)
TickSiteTime(sig, nowv) ==
  LET h == sig.currentSite
  IN IF h # "null" /\ h \in DOMAIN sig.siteTime /\ sig.siteTime[h].lastStart # 0
     THEN [sig EXCEPT
             !.siteTime[h].totalMs = @ + (nowv - sig.siteTime[h].lastStart),
             !.siteTime[h].lastStart = nowv]
     ELSE sig

\* history.push(...) with the cap keeping the first entries.
PushHistoryKeepingOldest(history, entry) ==
  LET h == Append(history, entry)
  IN IF Len(h) > HISTORY_MAX_ENTRIES
     THEN SubSeq(h, 1, HISTORY_MAX_ENTRIES)
     ELSE h

\* history.push(...) followed by the cap.
PushHistory(history, entry) ==
  LET h == Append(history, entry)
  IN IF Len(h) > HISTORY_MAX_ENTRIES
     THEN SubSeq(h, Len(h) - HISTORY_MAX_ENTRIES + 1, Len(h))
     ELSE h

\* tick(), from the site-time update to the metrics assignment: the local
\* state after scoring.  nowv is the tick's now, dnow the Date.now() that
\* computeFocusScore reads.
TickScored(state, nowv, dnow) ==
  LET sig == TickSiteTime(state.signals, nowv)
      focusScore == computeFocusScore(sig, state.session.mode, dnow).score
      history == PushHistory(state.history,
                             [timestamp |-> nowv, score |-> focusScore])
  IN [state EXCEPT
        !.signals = sig,
        !.history = history,
        !.metrics = [focusScore |-> focusScore,
                     trendDelta |-> computeTrendDelta(history, nowv)]]

\* The evaluation test with the age of the record left out.
EvalDueAnyAge(state, nowv) ==
  state.lastIntervention # NoIntervention

\* "Check if we should evaluate previous intervention": whether the
\* evaluator runs in this tick.
EvalDue(state, nowv) ==
  /\ state.lastIntervention # NoIntervention
  /\ nowv - state.lastIntervention.appliedAt >= EVAL_WINDOW_MS

\* The local state after the evaluation step.
TickEvaluated(state, nowv) ==
  IF EvalDue(state, nowv)
  THEN [state EXCEPT
          !.policy = evaluateIntervention(state, state.metrics.focusScore).policy,
          !.lastIntervention = NoIntervention]
  ELSE state

\* recentAlarm looking at the face-away alarm only.
RecentAlarmFaceOnly(m, nowv) ==
  nowv - m.lastFaceAwayAlarm < 10000

\* recentAlarm, read from the module variables.
RecentAlarm(m, nowv) ==
  \/ nowv - m.lastDoomscrollAlarm < 10000
  \/ nowv - m.lastFaceAwayAlarm < 10000

\* The dispatch test with the record kept in memory only: a worker that
\* has been restarted (no currentTabUrl) has forgotten it.
TickIntervenesFromMemory(state, m, nowv, musicAvailable) ==
  /\ musicAvailable
  /\ ~RecentAlarm(m, nowv)
  /\ shouldIntervene(
       [state EXCEPT !.lastIntervention =
          IF m.currentTabUrl = "null" THEN NoIntervention ELSE @],
       nowv).should

\* Whether the tick goes on to dispatch an intervention.
TickIntervenes(state, m, nowv, musicAvailable) ==
  musicAvailable /\ ~RecentAlarm(m, nowv) /\ shouldIntervene(state, nowv).should

\* isDoomscrolling as the tick passes it to selectIntervention.
TickIsDoomscrolling(state) ==
  state.signals.isDoomscrolling
    \/ state.signals.currentCategory \in BadCategories

\* evals[rec] + 1
CountEval(ev, rec) ==
  MapPut(ev, rec, IF rec \in DOMAIN ev THEN ev[rec] + 1 ELSE 1)

\* The start of tick() without the test of session.active.
TickLoadAnySession(k) ==
  /\ ticks[k].pc = "idle"
  /\ nTicks' = nTicks + 1
  /\ ticks' = [ticks EXCEPT ![k] = [IdleTick EXCEPT !.pc = "loaded",
                                                    !.now = clock,
                                                    !.state = stored]]
  /\ UNCHANGED <<tabChange, stored, clock, mem, nEvents, dispatchLog, evals>>

\* tick(): "const now = Date.now(); const state = await loadState();
\* if (!state.session.active) return;"
TickLoad(k) ==
  /\ ticks[k].pc = "idle"
  /\ nTicks' = nTicks + 1
  /\ ticks' =
       IF stored.session.active
       THEN [ticks EXCEPT ![k] = [IdleTick EXCEPT !.pc = "loaded",
                                                  !.now = clock,
                                                  !.state = stored]]
       ELSE ticks
  /\ UNCHANGED <<tabChange, stored, clock, mem, nEvents, dispatchLog, evals>>

\* A tick() invocation starts, at most MaxTicks times in a behaviour.
TickStart(k) == nTicks < MaxTicks /\ TickLoad(k)

\* recommendation_engine.js: the search queries getContextualRecommendation
\* picks from (a pool of three; the shuffle is resolved to this order).
RecommendationPool == <<"lofi study mix", "deep focus piano", "ambient rain">>

\* getContextualRecommendation(): the first query of the pool that is not
\* among the recently recommended ones; any query when all of them are.
Recommendation(recent) ==
  LET fresh == {i \in 1..Len(RecommendationPool) :
                  \A j \in 1..Len(recent) : recent[j] # RecommendationPool[i]}
  IN IF fresh = {} THEN RecommendationPool[1]
     ELSE RecommendationPool[CHOOSE i \in fresh : \A j \in fresh : i <= j]

\* smartRecommend() -> getContextualRecommendation() ->
\* addToRecentlyRecommended(): updateState() on the stored state s, the list
\* emptied first when every query of the pool is in it, then the new query
\* put in front and the list cut to 20.
addToRecentlyRecommended(s) ==
  LET recent == s.music.recentlyRecommended
      query == Recommendation(recent)
      kept == IF \E j \in 1..Len(recent) : recent[j] = query THEN <<>>
              ELSE recent
      grown == <<query>> \o kept
  IN [s EXCEPT !.music.recentlyRecommended =
                 IF Len(grown) > 20 THEN SubSeq(grown, 1, 20) ELSE grown]

\* tick(), from isYTMusicAvailable() to either the dispatch (the call of
\* applyIntervention, up to the write smartRecommend makes before it plays
\* the track) or, when the tick does not intervene, saveState.
TickCompute(k, musicAvailable) ==
  /\ ticks[k].pc = "loaded"
  /\ LET nowv == ticks[k].now
         m2 == DoomscrollDetection(mem, ticks[k].state.settings, clock)
         scored == TickScored(ticks[k].state, nowv, clock)
         due == EvalDue(scored, nowv)
         st == TickEvaluated(scored, nowv)
         go == TickIntervenes(st, m2, nowv, musicAvailable)
     IN /\ mem' = m2
        /\ evals' = IF due THEN CountEval(evals, scored.lastIntervention)
                    ELSE evals
        /\ IF go
           THEN /\ ticks' =
                     [ticks EXCEPT
                        ![k] = [pc |-> "applying", now |-> nowv, state |-> st,
                                interventionType |->
                                  selectIntervention(st, TickIsDoomscrolling(st),
                                                     clock),
                                evaluated |-> due]]
                /\ stored' =
                     IF selectIntervention(st, TickIsDoomscrolling(st), clock)
                          = "SMART_RECOMMEND"
                     THEN addToRecentlyRecommended(stored)
                     ELSE stored
           ELSE /\ ticks' = [ticks EXCEPT ![k] = IdleTick]
                /\ stored' = st
  /\ UNCHANGED <<tabChange, clock, nTicks, nEvents, dispatchLog>>

\* Whether applyIntervention(type) can answer success / failure.
ActuatorMay(type, success) ==
  IF type = "VIOLA_POPUP" THEN success ELSE TRUE

\* tick(), from the result of applyIntervention to saveState.
TickFinish(k, success) ==
  /\ ticks[k].pc = "applying"
  /\ ActuatorMay(ticks[k].interventionType, success)
  /\ LET t == ticks[k]
         rec == [type |-> t.interventionType, appliedAt |-> t.now,
                 preScore |-> t.state.metrics.focusScore]
     IN /\ stored' = IF success THEN [t.state EXCEPT !.lastIntervention = rec]
                     ELSE t.state
        /\ dispatchLog' =
             IF success
             THEN Append(dispatchLog,
                         [type |-> t.interventionType, at |-> t.now,
                          mode |-> t.state.session.mode,
                          session |-> t.state.session.startedAt])
             ELSE dispatchLog
  /\ ticks' = [ticks EXCEPT ![k] = IdleTick]
  /\ UNCHANGED <<tabChange, clock, mem, nTicks, nEvents, evals>>

\* ------------------------------------------------------------------------
\* The environment and the specification
\* ------------------------------------------------------------------------
\* Tabs the user opens, and the tab open when a session starts.
TabUrls == {"reddit.com", "example.com"}
StartUrls == {"docs.google.com", "reddit.com"}

\* Activity reports: scrolling a feed (by keyboard or touch: the pointer has
\* rested for two minutes), typing in a document.
ScrollingFeed == ActivityMsg("reddit.com", 120000, 120000, 0, 0, 20)
TypingDocument == ActivityMsg("docs.google.com", 0, 0, 20000, 12, 0)
ActivityMsgs == {ScrollingFeed, TypingDocument}

\* Vision signals: away from the desk for 20 s.
VisionMsgs ==
  {[facePresent |-> FALSE, lookingAway |-> TRUE, attentionPct |-> 30,
    faceMissingMs |-> 20000, lookingAwayMs |-> 20000]}

\* Settings forms the user saves.
SettingsForms ==
  {[customProductive |-> {}, customBlocked |-> {}, nuclearEnabled |-> TRUE,
    autoMusicSwitch |-> TRUE, autoMusicThreshold |-> 50]}

\* What categorizeSiteWithAI answers for a hostname it is asked about.
AiAnswers == {"games"}

\* No tick() and no handleTabChange() invocation is in flight.
Quiescent ==
  /\ \A k \in Tickers : ticks[k].pc = "idle"
  /\ tabChange.pc = "idle"

\* The control loop driven by the alarm alone.  The awaited calls of a tick
\* (storage, tab messages) complete within one TimeStep: the clock does not
\* move while the tick is in flight.
Next ==
  \/ (Quiescent /\ Advance(TimeStep))
  \/ \E mode \in Modes, url \in StartUrls : StartSession(mode, url)
  \/ StopSession
  \/ \E msg \in ActivityMsgs : HandleActivityReport(msg)
  \/ \E cfg \in SettingsForms : SaveSettings(cfg)
  \/ ResetLearning
  \/ TickStart("alarm")
  \/ \E musicAvailable \in BOOLEAN : TickCompute("alarm", musicAvailable)
  \/ \E success \in BOOLEAN : TickFinish("alarm", success)

Spec == Init /\ [][Next]_vars

\* The control loop with the events that arrive while a tick() or a
\* handleTabChange() is suspended at an await: a session started on a
\* document, tab changes, scrolling on a feed and camera signals.
NextRace ==
  \/ (Quiescent /\ Advance(TimeStep))
  \/ \E mode \in Modes : StartSession(mode, "docs.google.com")
  \/ \E url \in TabUrls : TabChangeStart(url)
  \/ \E aiAnswer \in AiAnswers : TabChangeFinish(aiAnswer)
  \/ HandleActivityReport(ScrollingFeed)
  \/ \E msg \in VisionMsgs : HandleVisionSignal(msg)
  \/ TickStart("alarm")
  \/ \E musicAvailable \in BOOLEAN : TickCompute("alarm", musicAvailable)
  \/ \E success \in BOOLEAN : TickFinish("alarm", success)

SpecRace == Init /\ [][NextRace]_vars

\* ------------------------------------------------------------------------
\* Properties of the control loop
\* ------------------------------------------------------------------------
\* C1 (as claimed): two successful dispatches of one session, in one mode, at
\* tick times t1 < t2 are at least COOLDOWNS[mode] apart.
C1_CooldownSpacing ==
  \A i, j \in 1..Len(dispatchLog) :
    (/\ i < j
     /\ dispatchLog[i].session = dispatchLog[j].session
     /\ dispatchLog[i].mode = dispatchLog[j].mode
     /\ dispatchLog[i].at < dispatchLog[j].at)
    => dispatchLog[j].at - dispatchLog[i].at >= COOLDOWNS[dispatchLog[j].mode]

\* Number of times the evaluator ran on record rec.
EvalCount(ev, rec) == IF rec \in DOMAIN ev THEN ev[rec] ELSE 0

\* C2 (as claimed): while the session stays active, the stored Intervention
\* Record is only ever cleared or replaced after exactly one evaluation, and
\* no record is evaluated twice.
C2_EvaluatedExactlyOnce ==
  /\ [][(/\ stored.session.active
         /\ stored'.session.active
         /\ stored.lastIntervention # NoIntervention
         /\ stored'.lastIntervention # stored.lastIntervention)
        => EvalCount(evals', stored.lastIntervention) = 1]_vars
  /\ [](\A rec \in DOMAIN evals : evals[rec] <= 1)

\* C3 (as claimed): a tick in which the evaluator ran does not go on to
\* select and dispatch an intervention.
C3_EvalExcludesDispatch ==
  \A k \in Tickers : ticks[k].pc = "applying" => ~ticks[k].evaluated

\* C4 (as claimed): stopSession leaves session.active = false and
\* lastIntervention = null in the stored state.
C4_StopClearsRecord ==
  [][StopSession =>
       (/\ ~stored'.session.active
        /\ stored'.lastIntervention = NoIntervention)]_vars

\* A tick() invocation returns in this step (it has written the state).
TickReturns(k) == ticks[k].pc # "idle" /\ ticks'[k].pc = "idle"

\* C5 (as claimed): a tick that finishes after stopSession ran leaves
\* session.active = false, creates no record and changes no arm.
C5_StopBeatsInFlightTick ==
  [][\A k \in Tickers :
       (TickReturns(k) /\ ~stored.session.active)
       => (/\ ~stored'.session.active
           /\ stored'.lastIntervention = stored.lastIntervention
           /\ stored'.policy = stored.policy)]_vars

\* ------------------------------------------------------------------------
\* Concurrency: the whole-blob writes of tick() and handleTabChange()
\* ------------------------------------------------------------------------
\* The handleTabChange() invocation returns in this step (it has written).
TabChangeReturns == tabChange.pc # "idle" /\ tabChange'.pc = "idle"

\* The timestamps of a tabSwitches array.
Timestamps(arr) == {arr[i] : i \in 1..Len(arr)}

\* C6 (as claimed): no completed write is lost: the write of a returning
\* tick keeps every tab-switch timestamp the handler has stored, and the
\* write of a returning handleTabChange keeps the Intervention Record and
\* the policy the tick has stored.
C6_NoLostWrites ==
  [][/\ \A k \in Tickers :
          TickReturns(k)
          => Timestamps(stored.signals.tabSwitches)
               \subseteq Timestamps(stored'.signals.tabSwitches)
     /\ TabChangeReturns
        => (/\ stored'.lastIntervention = stored.lastIntervention
            /\ stored'.policy = stored.policy)]_vars

\* The counts n of the arms, in the order of policy.arms.
ArmCounts(policy) == [i \in 1..Len(policy.arms) |-> policy.arms[i].n]

\* C8 (as claimed): every arm of the stored policy has n >= 1, and no step
\* other than reset-learning lowers the n of an arm.
C8_ArmCountsNeverDecrease ==
  /\ [](\A i \in 1..Len(stored.policy.arms) : stored.policy.arms[i].n >= 1)
  /\ [][(\E i \in 1..Len(stored.policy.arms) :
           ArmCounts(stored'.policy)[i] < ArmCounts(stored.policy)[i])
        => ResetLearning]_vars

\* ------------------------------------------------------------------------
\* The focus score over the range of its inputs
\* ------------------------------------------------------------------------
\* Number of tab switches in the widest tabSwitches array drawn.
MaxSwitches == 16

\* Signals drawn for the scorer: none or many recent tab switches; no
\* category or one with a bonus, a penalty (after a long time on that bad
\* site) or a strict-only penalty; input two minutes ago or typing now; no
\* or heavy scrolling; the camera off, seeing nobody for 100 s, or seeing
\* an attentive user.
ScoreSignals ==
  {[DefaultSignals EXCEPT
      !.tabSwitches = [i \in 1..nSwitches |-> Epoch - (nSwitches - i + 1)],
      !.currentSite = IF category = "null" THEN "null" ELSE "example.com",
      !.currentCategory = category,
      !.lastMouseMove = IF typing THEN Epoch ELSE Epoch - 120000,
      !.lastKeyPress = IF typing THEN Epoch ELSE Epoch - 120000,
      !.isActivelyTyping = typing,
      !.scrollCount = scrolls,
      !.isDoomscrolling = (category \in BadCategories /\ scrolls > 5),
      !.siteTime =
         IF category \notin BadCategories THEN EmptyMap
         ELSE [h \in {"example.com"} |->
                 [category |-> category, totalMs |-> 400000,
                  lastStart |-> 0]],
      !.visionEnabled = (camera # "off"),
      !.facePresent = (camera = "attentive"),
      !.lookingAway = (camera = "away"),
      !.visionAttentionPct = IF camera = "attentive" THEN 90 ELSE 0,
      !.faceMissingMs = IF camera = "away" THEN 100000 ELSE 0,
      !.lookingAwayMs = IF camera = "away" THEN 100000 ELSE 0] :
     nSwitches \in {0, MaxSwitches},
     category \in {"null", "productive", "socialMedia", "shopping"},
     typing \in BOOLEAN,
     scrolls \in {0, 30},
     camera \in {"off", "away", "attentive"}}

\* A session in progress in any mode, with any of the drawn signals stored.
InitScore ==
  /\ \E mode \in Modes, sig \in ScoreSignals :
       stored = [DEFAULT_STATE EXCEPT
                   !.session = [active |-> TRUE, mode |-> mode,
                                phase |-> "study", startedAt |-> Epoch],
                   !.signals = sig]
  /\ clock = Epoch
  /\ mem = InitMem
  /\ ticks = [k \in Tickers |-> IdleTick]
  /\ tabChange = IdleTabChange
  /\ nTicks = 0
  /\ nEvents = 0
  /\ dispatchLog = <<>>
  /\ evals = EmptyMap

\* The tick scores the drawn signals as time passes.
NextScore ==
  \/ (Quiescent /\ Advance(TimeStep))
  \/ TickStart("alarm")
  \/ \E musicAvailable \in BOOLEAN : TickCompute("alarm", musicAvailable)
  \/ \E success \in BOOLEAN : TickFinish("alarm", success)

SpecScore == InitScore /\ [][NextScore]_vars

\* C7: computeFocusScore returns a score in 0..100 for the stored signals in
\* every mode, and metrics.focusScore is in 0..100 in the stored state and
\* in the local state of every tick.
C7_ScoreInRange ==
  /\ \A mode \in Modes :
       computeFocusScore(stored.signals, mode, clock).score \in 0..100
  /\ stored.metrics.focusScore \in 0..100
  /\ \A k \in Tickers : ticks[k].state.metrics.focusScore \in 0..100

\* A tick has scored signals whose rounded score lies outside 0..100 and
\* stored the clamped score: below 0 in one tick, above 100 in another.
C7_Witness ==
  /\ Len(stored.history) >= 1
  /\ stored.history[Len(stored.history)].timestamp = clock
  /\ stored.metrics.focusScore \in {0, 100}
  /\ RoundScaled(FocusScoreParts(stored.signals, stored.session.mode,
                                 clock).score) \notin 0..100

\* ------------------------------------------------------------------------
\* The bandit arms over sequences of evaluations
\* ------------------------------------------------------------------------
\* Number of evaluations since the last reset of the policy.
MaxEvaluations == 3

\* Scores before and after an intervention, and the types evaluated (the
\* arms, and WHITE_NOISE, which has no arm).
EvalScores == {0, 45, 50, 55, 100}
EvalTypes ==
  {"BOOST_ENERGY", "SMART_RECOMMEND", "NUCLEAR", "WHITE_NOISE"}

\* evaluateIntervention(state, currentScore) applied to the stored state
\* with a record of the given type and preScore outstanding; the policy it
\* returns is stored.
EvaluateCall(type, preScore, currentScore) ==
  /\ SumSeq(ArmCounts(stored.policy)) - Len(stored.policy.arms)
       < MaxEvaluations
  /\ stored' =
       [stored EXCEPT
          !.policy =
             evaluateIntervention(
               [stored EXCEPT
                  !.lastIntervention = [type |-> type, appliedAt |-> clock,
                                        preScore |-> preScore]],
               currentScore).policy]
  /\ UNCHANGED <<clock, mem, ticks, tabChange, nTicks, nEvents, dispatchLog,
                 evals>>

NextBandit ==
  \/ \E type \in EvalTypes, preScore \in EvalScores,
        currentScore \in EvalScores :
        EvaluateCall(type, preScore, currentScore)
  \/ ResetLearning

SpecBandit == Init /\ [][NextBandit]_vars

\* Every arm value of the policy lies in [0, 1].
ArmValuesInRange(policy) ==
  \A i \in 1..Len(policy.arms) :
    /\ RatLe(RatZero, policy.arms[i].value)
    /\ RatLe(policy.arms[i].value, RatOne)

\* C9: every arm value of the stored policy lies in [0, 1] after any
\* sequence of evaluations with scores in 0..100.
C9_ArmValuesInUnitRange == ArmValuesInRange(stored.policy)

\* An arm has been updated twice with the reward 1, another twice with the
\* reward 0.
C9_Witness ==
  /\ \E i \in 1..Len(stored.policy.arms) :
       /\ stored.policy.arms[i].n >= 3
       /\ RatLt(Rat(3, 4), stored.policy.arms[i].value)
  \/ \E i \in 1..Len(stored.policy.arms) :
       /\ stored.policy.arms[i].n >= 3
       /\ RatLt(stored.policy.arms[i].value, Rat(1, 4))

\* ------------------------------------------------------------------------
\* The nuclear intervention
\* ------------------------------------------------------------------------
\* The control loop around the nuclear option: sessions started on a feed
\* in every mode, the settings form that enables it, and scrolling.
NextNuclear ==
  \/ (Quiescent /\ Advance(TimeStep))
  \/ \E mode \in Modes : StartSession(mode, "reddit.com")
  \/ HandleActivityReport(ScrollingFeed)
  \/ \E cfg \in SettingsForms : SaveSettings(cfg)
  \/ TickStart("alarm")
  \/ \E musicAvailable \in BOOLEAN : TickCompute("alarm", musicAvailable)
  \/ \E success \in BOOLEAN : TickFinish("alarm", success)

SpecNuclear == Init /\ [][NextNuclear]_vars

\* Policies in which NUCLEAR has the highest UCB score of all arms.
NuclearFavouringPolicies ==
  {[arms |->
      [i \in 1..Len(DefaultArms) |->
         IF DefaultArms[i].name = "NUCLEAR"
         THEN [name |-> "NUCLEAR", value |-> RatOne, n |-> 1]
         ELSE [name |-> DefaultArms[i].name, value |-> RatZero, n |-> m]]] :
     m \in {1, 4}}

\* selectArmUCB(policy, true) does not return NUCLEAR even where NUCLEAR
\* has the highest UCB score.
BanditExcludesNuclear ==
  \A policy \in NuclearFavouringPolicies :
    selectArmUCB(policy, TRUE) # "NUCLEAR"

\* C10: a tick that dispatches NUCLEAR runs in strict mode with
\* nuclearEnabled set and doomscrolling detected, and selectArmUCB as
\* selectIntervention calls it does not return NUCLEAR, for the policy of
\* every dispatching tick and for policies whose best arm is NUCLEAR.
C10_NuclearOnlyWhenArmed ==
  /\ \A k \in Tickers :
       (ticks[k].pc = "applying" /\ ticks[k].interventionType = "NUCLEAR")
       => (/\ ticks[k].state.session.mode = "strict"
           /\ ticks[k].state.settings.nuclearEnabled
           /\ TickIsDoomscrolling(ticks[k].state))
  /\ \A k \in Tickers :
       ticks[k].pc = "applying"
       => selectArmUCB(ticks[k].state.policy, TRUE) # "NUCLEAR"
  /\ BanditExcludesNuclear

\* A tick is dispatching NUCLEAR, and without the exclusion the bandit
\* would pick NUCLEAR from each of the favouring policies.
C10_Witness ==
  /\ \E k \in Tickers :
       ticks[k].pc = "applying" /\ ticks[k].interventionType = "NUCLEAR"
  /\ \A policy \in NuclearFavouringPolicies :
       selectArmUCB(policy, FALSE) = "NUCLEAR"

\* ------------------------------------------------------------------------
\* The doomscroll detector
\* ------------------------------------------------------------------------
\* Tick invocations started in one behaviour of the detector's loop.
MaxDoomscrollTicks == 4

\* The control loop on a feed: sessions started on reddit.com in every
\* mode, the settings form that enables the nuclear option, and ticks.
NextDoomscroll ==
  \/ (Quiescent /\ Advance(TimeStep))
  \/ \E mode \in Modes : StartSession(mode, "reddit.com")
  \/ HandleActivityReport(ScrollingFeed)
  \/ \E cfg \in SettingsForms : SaveSettings(cfg)
  \/ (nTicks < MaxDoomscrollTicks /\ TickLoad("alarm"))
  \/ \E musicAvailable \in BOOLEAN : TickCompute("alarm", musicAvailable)
  \/ \E success \in BOOLEAN : TickFinish("alarm", success)

SpecDoomscroll == Init /\ [][NextDoomscroll]_vars

\* The tick of caller k runs updateDoomscrollDetection in this step.
TickDetects(k) == ticks[k].pc = "loaded" /\ ticks'[k].pc # "loaded"

\* C11 (as claimed): a tick whose doomscroll detector plays PLAY_NUCLEAR
\* runs in a session whose mode is strict.
C11_NuclearAlarmStrictOnly ==
  [][\A k \in Tickers :
       (/\ TickDetects(k)
        /\ "PLAY_NUCLEAR" \in DoomscrollSounds(mem, ticks[k].state.settings,
                                               clock))
       => ticks[k].state.session.mode = "strict"]_vars

\* ------------------------------------------------------------------------
\* Breaks
\* ------------------------------------------------------------------------
\* The control loop with the Pomodoro timer: sessions started on a feed,
\* scrolling, and the end of a work phase or of a break.
NextPomodoro ==
  \/ (Quiescent /\ Advance(TimeStep))
  \/ \E mode \in Modes : StartSession(mode, "reddit.com")
  \/ HandleActivityReport(ScrollingFeed)
  \/ HandlePomodoroEnd
  \/ TickStart("alarm")
  \/ \E musicAvailable \in BOOLEAN : TickCompute("alarm", musicAvailable)
  \/ \E success \in BOOLEAN : TickFinish("alarm", success)

SpecPomodoro == Init /\ [][NextPomodoro]_vars

\* C12: a tick that loaded an inactive session does not go on; a tick that
\* loaded a session outside the study phase gets should = false from
\* shouldIntervene, does not reach the dispatch, and its write creates no
\* Intervention Record.
C12_NoInterventionOutsideStudy ==
  /\ [](\A k \in Tickers :
          ticks[k].pc # "idle"
          => /\ ticks[k].state.session.active
             /\ ticks[k].state.session.phase # "study"
                => /\ ~shouldIntervene(ticks[k].state, ticks[k].now).should
                   /\ ticks[k].pc # "applying")
  /\ [][\A k \in Tickers :
          (TickReturns(k) /\ ticks[k].state.session.phase # "study")
          => stored'.lastIntervention
               \in {NoIntervention, ticks[k].state.lastIntervention}]_vars

\* A tick has loaded a session on break whose last score is below the
\* mode's threshold and whose cooldown, if any, has passed.
C12_Witness ==
  \E k \in Tickers :
    /\ ticks[k].pc = "loaded"
    /\ ticks[k].state.session.phase = "break"
    /\ shouldIntervene([ticks[k].state EXCEPT !.session.phase = "study"],
                       ticks[k].now).should

\* ------------------------------------------------------------------------
\* The gate over the range of its inputs
\* ------------------------------------------------------------------------
\* Granularity of the clock around the end of a cooldown.
GateStep == 5000

\* Metrics drawn for the gate: scores at and around the three thresholds,
\* trends at and around the three trend thresholds.
GateScores == {0, 44, 45, 59, 60, 74, 75, 100}
GateTrends == {-16, -15, -11, -10, -6, -5, 0}

\* An active study session in any mode with a record outstanding whose
\* cooldown ends one GateStep after Epoch, give or take a millisecond.
InitGate ==
  /\ \E mode \in Modes, score \in GateScores, trend \in GateTrends,
        doom \in BOOLEAN, early \in {-1, 0, 1} :
       stored =
         [DEFAULT_STATE EXCEPT
            !.session = [active |-> TRUE, mode |-> mode, phase |-> "study",
                         startedAt |-> Epoch - 120000],
            !.signals.isDoomscrolling = doom,
            !.metrics = [focusScore |-> score, trendDelta |-> trend],
            !.lastIntervention =
               [type |-> "BOOST_ENERGY",
                appliedAt |-> Epoch + GateStep - COOLDOWNS[mode] + early,
                preScore |-> 50]]
  /\ clock = Epoch
  /\ mem = InitMem
  /\ ticks = [k \in Tickers |-> IdleTick]
  /\ tabChange = IdleTabChange
  /\ nTicks = 0
  /\ nEvents = 0
  /\ dispatchLog = <<>>
  /\ evals = EmptyMap

\* Time passes over the end of the cooldown.
NextGate == Advance(GateStep)

SpecGate == InitGate /\ [][NextGate]_vars

\* Time since the outstanding record was applied.
SinceApplied == clock - stored.lastIntervention.appliedAt

\* C13 (as claimed): shouldIntervene returns false while the cooldown runs
\* and true at and after its end.
C13_CooldownGating ==
  /\ SinceApplied < COOLDOWNS[stored.session.mode]
     => ~shouldIntervene(stored, clock).should
  /\ SinceApplied >= COOLDOWNS[stored.session.mode]
     => shouldIntervene(stored, clock).should

\* One of the triggers of shouldIntervene holds in the stored state.
Triggered ==
  \/ stored.metrics.focusScore < THRESHOLDS[stored.session.mode]
  \/ stored.metrics.trendDelta < TREND_THRESHOLDS[stored.session.mode]
  \/ stored.session.mode = "strict" /\ stored.signals.isDoomscrolling

\* C13 (amended): shouldIntervene returns false while the cooldown runs; at
\* and after its end it returns true exactly when a trigger holds.
C13_CooldownGatingAmended ==
  /\ SinceApplied < COOLDOWNS[stored.session.mode]
     => /\ ~shouldIntervene(stored, clock).should
        /\ shouldIntervene(stored, clock).reason = "cooldown"
  /\ SinceApplied >= COOLDOWNS[stored.session.mode]
     => (shouldIntervene(stored, clock).should <=> Triggered)

\* The cooldown ends at this very millisecond, a trigger holds, and
\* shouldIntervene answers true.
C13_Witness ==
  /\ SinceApplied = COOLDOWNS[stored.session.mode]
  /\ Triggered
  /\ shouldIntervene(stored, clock).should

\* ------------------------------------------------------------------------
\* The evaluation window
\* ------------------------------------------------------------------------
\* The local state of tick k after the step it is taking: the state it
\* carries to the dispatch, or the state it saves.
TickStateAfter(k) ==
  IF ticks'[k].pc = "applying" THEN ticks'[k].state ELSE stored'

\* The record tick k loaded is outstanding and younger than the window.
RecordYoung(k) ==
  /\ ticks[k].state.lastIntervention # NoIntervention
  /\ ticks[k].now - ticks[k].state.lastIntervention.appliedAt < EVAL_WINDOW_MS

\* C14: a tick changes the policy only when the record it loaded is at
\* least EVAL_WINDOW_MS old; a tick that loaded a younger record leaves
\* policy and lastIntervention as loaded in its evaluation step, and the
\* rest of the tick does not change the policy.
C14_EvaluationAfterWindow ==
  [][\A k \in Tickers :
       /\ TickDetects(k)
          => /\ TickStateAfter(k).policy # ticks[k].state.policy
                => /\ ticks[k].state.lastIntervention # NoIntervention
                   /\ ticks[k].now - ticks[k].state.lastIntervention.appliedAt
                        >= EVAL_WINDOW_MS
             /\ RecordYoung(k)
                => /\ TickStateAfter(k).policy = ticks[k].state.policy
                   /\ TickStateAfter(k).lastIntervention
                        = ticks[k].state.lastIntervention
       /\ (ticks[k].pc = "applying" /\ TickReturns(k))
          => stored'.policy = ticks[k].state.policy]_vars

\* A tick has passed its evaluation step with a record younger than the
\* window still outstanding and its arms as they were, and is dispatching
\* the next intervention.
C14_Witness ==
  \E k \in Tickers :
    /\ ticks[k].pc = "applying"
    /\ ticks[k].state.lastIntervention # NoIntervention
    /\ ticks[k].now - ticks[k].state.lastIntervention.appliedAt
         < EVAL_WINDOW_MS
    /\ ticks[k].now > ticks[k].state.lastIntervention.appliedAt
    /\ ticks[k].state.policy = DefaultPolicy

\* ------------------------------------------------------------------------
\* The failed dispatch
\* ------------------------------------------------------------------------
\* Tick k returns from a dispatch whose result lacks success: no
\* INTERVENTION_APPLIED message goes out.
TickFails(k) ==
  /\ ticks[k].pc = "applying"
  /\ TickReturns(k)
  /\ dispatchLog' = dispatchLog

\* C15 (as claimed): a tick whose dispatch fails has changed no arm and
\* saves lastIntervention and the policy as they were when it began; no
\* cooldown runs from it, so shouldIntervene still answers true for the
\* state it saved.
C15_FailedDispatchChangesNothing ==
  [][\A k \in Tickers :
       TickFails(k)
       => /\ ~ticks[k].evaluated
          /\ stored'.lastIntervention = ticks[k].state.lastIntervention
          /\ stored'.policy = ticks[k].state.policy
          /\ shouldIntervene(stored', ticks[k].now).should]_vars

\* ------------------------------------------------------------------------
\* The arm update
\* ------------------------------------------------------------------------
\* The stored state with a record of the given type and preScore
\* outstanding.
WithRecord(type, preScore) ==
  [stored EXCEPT
     !.lastIntervention = [type |-> type, appliedAt |-> clock,
                           preScore |-> preScore]]

\* after is before with arm number a updated by the incremental mean for
\* the given reward: n grows by one, value' * n' = value * n + reward, and
\* every other arm is as it was.
IsMeanUpdate(before, after, a, reward) ==
  /\ Len(after.arms) = Len(before.arms)
  /\ after.arms[a].name = before.arms[a].name
  /\ after.arms[a].n = before.arms[a].n + 1
  /\ Rat(after.arms[a].value.num * after.arms[a].n, after.arms[a].value.den)
       = RatAdd(Rat(before.arms[a].value.num * before.arms[a].n,
                    before.arms[a].value.den),
                reward)
  /\ \A i \in 1..Len(before.arms) : i # a => after.arms[i] = before.arms[i]

\* Pairs <<preScore, currentScore>> giving the rewards 0, 1/3, 1/2, 2/3, 1.
MeanScores == {<<100, 0>>, <<50, 45>>, <<50, 50>>, <<50, 55>>, <<0, 100>>}

\* C16: evaluating a record of arm A on the stored policy, for every arm A
\* and each of these pairs of scores, gives A the count n + 1 and the value
\* old + (reward - old) / (n + 1) and leaves the other arms unchanged; for
\* arms A = {0.5, 1} and B = {0.5, 1} and reward 1 the result is
\* A = {0.75, 2} with B unchanged.
C16_IncrementalMean ==
  /\ \A a \in 1..Len(stored.policy.arms), scores \in MeanScores :
       \A after \in {evaluateIntervention(
                        WithRecord(stored.policy.arms[a].name, scores[1]),
                        scores[2]).policy},
          reward \in {deltaToReward(scores[2] - scores[1])} :
          IsMeanUpdate(stored.policy, after, a, reward)
  /\ LET after == updateBanditArm(DefaultPolicy, "BOOST_ENERGY", RatOne)
     IN /\ after.arms[1] = [name |-> "BOOST_ENERGY",
                            value |-> [num |-> 3, den |-> 4], n |-> 2]
        /\ after.arms[2] = [name |-> "SWITCH_PLAYLIST",
                            value |-> [num |-> 1, den |-> 2], n |-> 1]
        /\ \A i \in 2..Len(DefaultArms) : after.arms[i] = DefaultArms[i]

\* The stored policy is the result of the example: BOOST_ENERGY evaluated
\* once with reward 1 from {0.5, 1}, every other arm at its prior.
C16_Witness ==
  /\ stored.policy.arms[1] = [name |-> "BOOST_ENERGY",
                              value |-> [num |-> 3, den |-> 4], n |-> 2]
  /\ \A i \in 2..Len(DefaultArms) : stored.policy.arms[i] = DefaultArms[i]

\* ------------------------------------------------------------------------
\* The reward
\* ------------------------------------------------------------------------
\* Scores before and after an intervention whose differences are the
\* integers from -100 to 100.
RewardScores == {<<100, c>> : c \in 0..100} \cup {<<0, c>> : c \in 0..100}

\* A record of BOOST_ENERGY is outstanding with any of these preScores, and
\* the metrics hold the matching current score.
InitReward ==
  /\ \E scores \in RewardScores :
       stored =
         [DEFAULT_STATE EXCEPT
            !.session = [active |-> TRUE, mode |-> "normal", phase |-> "study",
                         startedAt |-> Epoch - EVAL_WINDOW_MS],
            !.metrics = [focusScore |-> scores[2], trendDelta |-> 0],
            !.lastIntervention = [type |-> "BOOST_ENERGY",
                                  appliedAt |-> Epoch - EVAL_WINDOW_MS,
                                  preScore |-> scores[1]]]
  /\ clock = Epoch
  /\ mem = InitMem
  /\ ticks = [k \in Tickers |-> IdleTick]
  /\ tabChange = IdleTabChange
  /\ nTicks = 0
  /\ nEvents = 0
  /\ dispatchLog = <<>>
  /\ evals = EmptyMap

\* The evaluation block of tick() applied to the stored state.
EvaluateRecord ==
  /\ EvalDue(stored, clock)
  /\ stored' = TickEvaluated(stored, clock)
  /\ UNCHANGED <<clock, mem, ticks, tabChange, nTicks, nEvents, dispatchLog,
                 evals>>

NextReward == EvaluateRecord

SpecReward == InitReward /\ [][NextReward]_vars

\* The focus delta of the outstanding record.
RecordDelta == stored.metrics.focusScore - stored.lastIntervention.preScore

\* (delta + 15) / 30 clamped to [0, 1], by regions.
ClampedReward(d) ==
  IF d <= -15 THEN RatZero
  ELSE IF d >= 15 THEN RatOne
  ELSE [num |-> (d + 15) \div GCD(d + 15, 30),
        den |-> 30 \div GCD(d + 15, 30)]

\* C17: for every integer delta in -100..100, deltaToReward(delta) is
\* (delta + 15) / 30 clamped to [0, 1]: 0 for delta <= -15, 1/2 at 0, 1 for
\* delta >= 15, and non-decreasing in delta; the evaluation applies this
\* reward to the arm.
C17_RewardClamped ==
  /\ [](stored.lastIntervention # NoIntervention
        => /\ RecordDelta \in -100..100
           /\ deltaToReward(RecordDelta) = ClampedReward(RecordDelta)
           /\ RecordDelta = 0 => deltaToReward(RecordDelta) = [num |-> 1, den |-> 2]
           /\ RatLe(deltaToReward(RecordDelta - 1), deltaToReward(RecordDelta))
           /\ RatLe(deltaToReward(RecordDelta), deltaToReward(RecordDelta + 1)))
  /\ [][stored'.policy # stored.policy
        => IsMeanUpdate(stored.policy, stored'.policy, 1,
                        ClampedReward(RecordDelta))]_vars

\* A record with delta 5 has been evaluated: the reward 2/3 took
\* BOOST_ENERGY from {1/2, 1} to {7/12, 2}.
C17_Witness ==
  /\ stored.lastIntervention = NoIntervention
  /\ stored.policy.arms[1] = [name |-> "BOOST_ENERGY",
                              value |-> [num |-> 7, den |-> 12], n |-> 2]

\* ------------------------------------------------------------------------
\* The UCB1 choice between arms of equal value
\* ------------------------------------------------------------------------
\* Largest count n of an arm in the policies drawn.
MaxArmPulls == 4

\* Arm values drawn.
UCBValues == {RatZero, Rat(1, 2), RatOne}

\* Policies holding BOOST_ENERGY and SWITCH_PLAYLIST with one value and
\* different counts, in both storage orders, alone or with PATTERN_BREAK at
\* any position.
UCBPolicies ==
  LET Pair(v, na, nb) ==
        << [name |-> "BOOST_ENERGY", value |-> v, n |-> na],
           [name |-> "SWITCH_PLAYLIST", value |-> v, n |-> nb] >>
      Swap(p) == << p[2], p[1] >>
      Pairs == {Pair(v, na, nb) :
                  v \in UCBValues,
                  na \in 1..MaxArmPulls, nb \in 1..MaxArmPulls}
      Unequal == {p \in Pairs : p[1].n # p[2].n}
      Ordered == Unequal \cup {Swap(p) : p \in Unequal}
      Third == {[name |-> "PATTERN_BREAK", value |-> v, n |-> n] :
                  v \in UCBValues, n \in 1..MaxArmPulls}
      Triples == UNION {{ <<c, p[1], p[2]>>, <<p[1], c, p[2]>>,
                          <<p[1], p[2], c>> } : p \in Ordered, c \in Third}
  IN {[arms |-> a] : a \in Ordered \cup Triples}

InitUCB ==
  /\ \E policy \in UCBPolicies, mode \in Modes :
       stored =
         [DEFAULT_STATE EXCEPT
            !.session = [active |-> TRUE, mode |-> mode, phase |-> "study",
                         startedAt |-> Epoch],
            !.policy = policy]
  /\ clock = Epoch
  /\ mem = InitMem
  /\ ticks = [k \in Tickers |-> IdleTick]
  /\ tabChange = IdleTabChange
  /\ nTicks = 0
  /\ nEvents = 0
  /\ dispatchLog = <<>>
  /\ evals = EmptyMap

\* selectIntervention falls through to the bandit ("return
\* selectArmUCB(policy, true)") and the choice is dispatched.
SelectArm ==
  /\ dispatchLog = <<>>
  /\ dispatchLog' =
       << [type |-> selectArmUCB(stored.policy, TRUE), at |-> clock,
           mode |-> stored.session.mode,
           session |-> stored.session.startedAt] >>
  /\ UNCHANGED <<stored, clock, mem, ticks, tabChange, nTicks, nEvents, evals>>

NextUCB == SelectArm

SpecUCB == InitUCB /\ [][NextUCB]_vars

\* The policy with its arms stored in the opposite order.
Reversed(policy) ==
  [arms |-> [i \in 1..Len(policy.arms) |->
               policy.arms[Len(policy.arms) + 1 - i]]]

\* C18: of two eligible arms with equal value and different n,
\* selectArmUCB never selects the one with the larger n; where they are the
\* only arms it selects the one with the smaller n, in either storage
\* order; and the arm dispatched is the arm selected.
C18_PrefersLessTried ==
  /\ \A i \in 1..Len(stored.policy.arms), j \in 1..Len(stored.policy.arms) :
       (/\ stored.policy.arms[i].value = stored.policy.arms[j].value
        /\ stored.policy.arms[i].n < stored.policy.arms[j].n
        /\ stored.policy.arms[i].name # "NUCLEAR"
        /\ stored.policy.arms[j].name # "NUCLEAR")
       => /\ selectArmUCB(stored.policy, TRUE) # stored.policy.arms[j].name
          /\ selectArmUCB(Reversed(stored.policy), TRUE)
               # stored.policy.arms[j].name
          /\ Len(stored.policy.arms) = 2
             => /\ selectArmUCB(stored.policy, TRUE) = stored.policy.arms[i].name
                /\ selectArmUCB(Reversed(stored.policy), TRUE)
                     = stored.policy.arms[i].name
  /\ dispatchLog # <<>>
     => dispatchLog[1].type = selectArmUCB(stored.policy, TRUE)

\* Of two arms of equal value the one stored second has the smaller n, and
\* it is the one dispatched.
C18_Witness ==
  /\ Len(stored.policy.arms) = 2
  /\ stored.policy.arms[1].value = stored.policy.arms[2].value
  /\ stored.policy.arms[2].n < stored.policy.arms[1].n
  /\ dispatchLog # <<>>
  /\ dispatchLog[1].type = stored.policy.arms[2].name

\* ------------------------------------------------------------------------
\* The nuclear choice of selectIntervention
\* ------------------------------------------------------------------------
\* Focus scores drawn: below every context rule, between them, and 100.
SelectScores == {0, 29, 49, 100}

\* Records drawn: none, one applied 15 s ago (escalation applies), one
\* applied by the popup.
SelectRecords ==
  {NoIntervention,
   [type |-> "BOOST_ENERGY", appliedAt |-> Epoch - TimeStep, preScore |-> 50],
   [type |-> "VIOLA_POPUP", appliedAt |-> Epoch - TimeStep, preScore |-> 50]}

\* Policies drawn: the priors, one whose best arm is SWITCH_PLAYLIST, and
\* one without arms.
SelectPolicies ==
  {DefaultPolicy,
   [arms |->
      [i \in 1..Len(DefaultArms) |->
         IF DefaultArms[i].name = "SWITCH_PLAYLIST"
         THEN [name |-> "SWITCH_PLAYLIST", value |-> RatOne, n |-> 1]
         ELSE DefaultArms[i]]],
   [arms |-> <<>>]}

InitSelect ==
  /\ \E mode \in Modes, nuclearEnabled \in BOOLEAN, score \in SelectScores,
        last \in SelectRecords, policy \in SelectPolicies,
        doom \in BOOLEAN, category \in {"null", "socialMedia"} :
       stored =
         [DEFAULT_STATE EXCEPT
            !.session = [active |-> TRUE, mode |-> mode, phase |-> "study",
                         startedAt |-> Epoch - 120000],
            !.settings.nuclearEnabled = nuclearEnabled,
            !.signals.isDoomscrolling = doom,
            !.signals.currentCategory = category,
            !.metrics = [focusScore |-> score, trendDelta |-> 0],
            !.lastIntervention = last,
            !.policy = policy]
  /\ clock = Epoch
  /\ mem = InitMem
  /\ ticks = [k \in Tickers |-> IdleTick]
  /\ tabChange = IdleTabChange
  /\ nTicks = 0
  /\ nEvents = 0
  /\ dispatchLog = <<>>
  /\ evals = EmptyMap

\* "const interventionType = selectIntervention(state, isDoomscrolling)",
\* and its dispatch.
SelectCall ==
  /\ dispatchLog = <<>>
  /\ dispatchLog' =
       << [type |-> selectIntervention(stored, TickIsDoomscrolling(stored),
                                       clock),
           at |-> clock, mode |-> stored.session.mode,
           session |-> stored.session.startedAt] >>
  /\ UNCHANGED <<stored, clock, mem, ticks, tabChange, nTicks, nEvents, evals>>

NextSelect == SelectCall

SpecSelect == InitSelect /\ [][NextSelect]_vars

\* C19: with doomscrolling passed as true, strict mode and nuclearEnabled,
\* selectIntervention returns NUCLEAR for the score, the record and the
\* policy of the state and for every other policy drawn, and NUCLEAR is
\* what is dispatched.
C19_NuclearFirst ==
  (/\ TickIsDoomscrolling(stored)
   /\ stored.session.mode = "strict"
   /\ stored.settings.nuclearEnabled)
  => /\ selectIntervention(stored, TRUE, clock) = "NUCLEAR"
     /\ \A policy \in SelectPolicies :
          selectIntervention([stored EXCEPT !.policy = policy], TRUE, clock)
            = "NUCLEAR"
     /\ dispatchLog # <<>> => dispatchLog[1].type = "NUCLEAR"

\* NUCLEAR has been dispatched at score 100 with a record 15 s old
\* outstanding.
C19_Witness ==
  /\ dispatchLog # <<>>
  /\ dispatchLog[1].type = "NUCLEAR"
  /\ stored.metrics.focusScore = 100
  /\ stored.lastIntervention.type = "BOOST_ENERGY"
  /\ stored.session.mode = "strict"
  /\ stored.settings.nuclearEnabled

\* ------------------------------------------------------------------------
\* The score without signals
\* ------------------------------------------------------------------------
\* No signals: no tab switches, no category, no input timestamps, no site
\* time, the camera off, nobody typing.
NoSignals(sig) ==
  /\ sig.tabSwitches = <<>>
  /\ sig.currentCategory = "null"
  /\ sig.lastMouseMove = 0
  /\ sig.lastKeyPress = 0
  /\ sig.siteTime = EmptyMap
  /\ ~sig.visionEnabled
  /\ ~sig.isActivelyTyping

\* Signals drawn: the defaults; the defaults with scroll events counted or
\* with readings left over from a camera now off; and, for contrast, a
\* user typing and a camera that has seen nobody for 100 s.
QuietSignals ==
  {DefaultSignals,
   [DefaultSignals EXCEPT !.scrollCount = 30],
   [DefaultSignals EXCEPT !.faceMissingMs = 100000, !.lookingAway = TRUE,
                          !.lookingAwayMs = 100000],
   [DefaultSignals EXCEPT !.isActivelyTyping = TRUE, !.lastKeyPress = Epoch],
   [DefaultSignals EXCEPT !.visionEnabled = TRUE, !.faceMissingMs = 100000]}

\* A session in progress in any mode, with any of these signals stored.
InitQuiet ==
  /\ \E mode \in Modes, sig \in QuietSignals :
       stored = [DEFAULT_STATE EXCEPT
                   !.session = [active |-> TRUE, mode |-> mode,
                                phase |-> "study", startedAt |-> Epoch],
                   !.signals = sig]
  /\ clock = Epoch
  /\ mem = InitMem
  /\ ticks = [k \in Tickers |-> IdleTick]
  /\ tabChange = IdleTabChange
  /\ nTicks = 0
  /\ nEvents = 0
  /\ dispatchLog = <<>>
  /\ evals = EmptyMap

SpecQuiet == InitQuiet /\ [][NextScore]_vars

\* C20: for signals without content computeFocusScore in normal mode (and
\* with a mode it does not know, which it treats as normal) returns the
\* score 100 with no penalties and no bonuses, at every time; a tick of a
\* normal session that has scored such signals stores the score 100.
C20_NoSignalsScore100 ==
  NoSignals(stored.signals)
  => /\ \A mode \in {"normal", "unknown"} :
          computeFocusScore(stored.signals, mode, clock)
            = [score |-> 100, penalties |-> <<>>, bonuses |-> <<>>]
     /\ (stored.session.mode = "normal" /\ stored.history # <<>>)
        => /\ stored.metrics.focusScore = 100
           /\ \A i \in 1..Len(stored.history) : stored.history[i].score = 100

\* A tick of a normal session has scored the default signals, 30 s after
\* the session began, and stored 100.
C20_Witness ==
  /\ stored.signals = DefaultSignals
  /\ stored.session.mode = "normal"
  /\ stored.history # <<>>
  /\ stored.history[Len(stored.history)].timestamp = Epoch + 2 * TimeStep
  /\ stored.metrics.focusScore = 100

\* ------------------------------------------------------------------------
\* The itemized score
\* ------------------------------------------------------------------------
\* The score the returned lists account for:
\* round(clamp(100 + sum of bonuses - sum of penalties, 0, 100)).
ItemizedScore(result) ==
  RoundScaled(
    clamp(100 * ScoreScale
            + SumSeq([i \in 1..Len(result.bonuses) |-> result.bonuses[i].value])
            - SumSeq([i \in 1..Len(result.penalties) |->
                        result.penalties[i].value]),
          0, 100 * ScoreScale))

\* C21 (as claimed): in every mode the score computeFocusScore returns for
\* the stored signals is the one its returned bonuses and penalties
\* account for.
C21_ScoreIsItemized ==
  \A mode \in Modes :
    \A result \in {computeFocusScore(stored.signals, mode, clock)} :
      result.score = ItemizedScore(result)

\* ------------------------------------------------------------------------
\* The tab-switch penalty
\* ------------------------------------------------------------------------
\* Signals drawn: up to MaxSwitches tab switches made in the last seconds
\* before Epoch, alone or after three made 50 s before Epoch, which leave
\* the window as time passes.
SwitchSignals ==
  {[DefaultSignals EXCEPT
      !.tabSwitches =
         [i \in 1..nOld |-> Epoch - 50000 - (nOld - i + 1)]
           \o [i \in 1..nSwitches |-> Epoch - (nSwitches - i + 1)]] :
     nSwitches \in 0..MaxSwitches, nOld \in {0, 3}}

InitSwitches ==
  /\ \E mode \in Modes, sig \in SwitchSignals :
       stored = [DEFAULT_STATE EXCEPT
                   !.session = [active |-> TRUE, mode |-> mode,
                                phase |-> "study", startedAt |-> Epoch],
                   !.signals = sig]
  /\ clock = Epoch
  /\ mem = InitMem
  /\ ticks = [k \in Tickers |-> IdleTick]
  /\ tabChange = IdleTabChange
  /\ nTicks = 0
  /\ nEvents = 0
  /\ dispatchLog = <<>>
  /\ evals = EmptyMap

SpecSwitches == InitSwitches /\ [][NextScore]_vars

\* The value of the tabSwitch item of a result, 0 without one.
TabPenaltyOf(result) ==
  LET IsTab(p) == p.type = "tabSwitch"
      items == SelectSeq(result.penalties, IsTab)
  IN IF items = <<>> THEN 0 ELSE items[1].value

\* Number of stored tab switches inside the 60 s window at the clock.
SwitchesInWindow ==
  Cardinality({i \in 1..Len(stored.signals.tabSwitches) :
                 stored.signals.tabSwitches[i] > clock - 60000})

SignalFrames ==
  {[history |-> <<>>,
    metrics |-> [focusScore |-> 100, trendDelta |-> 0],
    lastIntervention |-> NoIntervention,
    policy |-> DefaultPolicy],
   [history |-> << [timestamp |-> Epoch - 2 * TimeStep, score |-> 80],
                   [timestamp |-> Epoch - TimeStep, score |-> 40] >>,
    metrics |-> [focusScore |-> 40, trendDelta |-> -40],
    lastIntervention |-> [type |-> "BOOST_ENERGY",
                          appliedAt |-> Epoch - TimeStep, preScore |-> 40],
    policy |-> updateBanditArm(DefaultPolicy, "BOOST_ENERGY", RatOne)]}

\* A session in progress in any mode with either of these frames.
InitSignals ==
  /\ \E mode \in Modes, frame \in SignalFrames :
       stored =
         [DEFAULT_STATE EXCEPT
            !.session = [active |-> TRUE, mode |-> mode, phase |-> "study",
                         startedAt |-> Epoch - 120000],
            !.metrics = frame.metrics,
            !.history = frame.history,
            !.lastIntervention = frame.lastIntervention,
            !.policy = frame.policy]
  /\ clock = Epoch
  /\ mem = InitMem
  /\ ticks = [k \in Tickers |-> IdleTick]
  /\ tabChange = IdleTabChange
  /\ nTicks = 0
  /\ nEvents = 0
  /\ dispatchLog = <<>>
  /\ evals = EmptyMap

\* The three signal handlers, each run to completion, as time passes.
NextSignals ==
  \/ (Quiescent /\ Advance(TimeStep))
  \/ \E url \in TabUrls : (Quiescent /\ TabChangeStart(url))
  \/ \E aiAnswer \in AiAnswers : TabChangeFinish(aiAnswer)
  \/ \E msg \in ActivityMsgs : (Quiescent /\ HandleActivityReport(msg))
  \/ \E msg \in VisionMsgs : (Quiescent /\ HandleVisionSignal(msg))

SpecSignals == InitSignals /\ [][NextSignals]_vars

\* The stored state apart from its signals.
BesidesSignals(state) ==
  [policy |-> state.policy, lastIntervention |-> state.lastIntervention,
   history |-> state.history, metrics |-> state.metrics,
   session |-> state.session, settings |-> state.settings]

\* C23: a step of handleTabChange, handleActivityReport or
\* handleVisionSignal, each run to completion on an active session, leaves
\* policy, lastIntervention, history, metrics and session of the stored
\* state unchanged, dispatches nothing and evaluates nothing.
C23_HandlersChangeOnlySignals ==
  [][/\ BesidesSignals(stored') = BesidesSignals(stored)
     /\ dispatchLog' = dispatchLog
     /\ evals' = evals]_vars

\* The three handlers have run on a session with a record outstanding:
\* a tab switch is stored, the scroll count of a report, and the camera's
\* reading.
C23_Witness ==
  /\ stored.lastIntervention # NoIntervention
  /\ stored.history # <<>>
  /\ tabChange.pc = "idle"
  /\ Len(stored.signals.tabSwitches) = 1
  /\ stored.signals.scrollCount = 20
  /\ stored.signals.visionEnabled

\* ------------------------------------------------------------------------
\* The writers of the policy
\* ------------------------------------------------------------------------
\* after is before with exactly one arm evaluated once more: its n is one
\* higher, every other arm is as it was.
OneArmEvaluated(before, after) ==
  /\ Len(after.arms) = Len(before.arms)
  /\ \E a \in 1..Len(before.arms) :
       /\ after.arms[a].name = before.arms[a].name
       /\ after.arms[a].n = before.arms[a].n + 1
       /\ \A i \in 1..Len(before.arms) :
            i # a => after.arms[i] = before.arms[i]

\* C24 (as claimed): the stored policy.arms changes only in the step of a
\* tick that evaluated a record (one arm, once more) or in a reset-learning
\* step; in every state the arms are the five of the priors, none removed.
C24_ArmsChangeOnlyByEvaluation ==
  /\ [][stored'.policy # stored.policy
        => \/ ResetLearning
           \/ /\ \E k \in Tickers : TickReturns(k)
              /\ OneArmEvaluated(stored.policy, stored'.policy)]_vars
  /\ [](/\ Len(stored.policy.arms) = Len(DefaultArms)
        /\ \A i \in 1..Len(DefaultArms) :
             stored.policy.arms[i].name = DefaultArms[i].name)

\* ------------------------------------------------------------------------
\* The stopped session
\* ------------------------------------------------------------------------
\* A session two ticks in, running or already stopped, or no session yet.
\* Bounds of the stopped-session runs: alarms fired and events delivered.
MaxStoppedTicks == 1
MaxStoppedEvents == 1

InitStopped ==
  /\ \E active \in BOOLEAN, frame \in SignalFrames :
       stored =
         [DEFAULT_STATE EXCEPT
            !.session = [active |-> active, mode |-> "strict",
                         phase |-> "study", startedAt |-> Epoch - 120000],
            !.signals = [DefaultSignals EXCEPT !.currentSite = "reddit.com",
                                               !.currentCategory = "socialMedia"],
            !.metrics = frame.metrics,
            !.history = frame.history,
            !.lastIntervention = frame.lastIntervention,
            !.policy = frame.policy]
  /\ clock = Epoch
  /\ mem = InitMem
  /\ ticks = [k \in Tickers |-> IdleTick]
  /\ tabChange = IdleTabChange
  /\ nTicks = 0
  /\ nEvents = 0
  /\ dispatchLog = <<>>
  /\ evals = EmptyMap

\* The alarm and the signal events keep arriving one at a time, whether the
\* session runs or has been stopped; the stop itself may fall between the
\* steps of a tick or of a handleTabChange.
NextStopped ==
  \/ (Quiescent /\ Advance(TimeStep))
  \/ StopSession
  \/ (Quiescent /\ nEvents < MaxStoppedEvents /\ TabChangeStart("example.com"))
  \/ \E aiAnswer \in AiAnswers : TabChangeFinish(aiAnswer)
  \/ (Quiescent /\ nEvents < MaxStoppedEvents
        /\ HandleActivityReport(ScrollingFeed))
  \/ (Quiescent /\ nEvents < MaxStoppedEvents
        /\ \E msg \in VisionMsgs : HandleVisionSignal(msg))
  \/ (Quiescent /\ nTicks < MaxStoppedTicks /\ TickStart("alarm"))
  \/ \E musicAvailable \in BOOLEAN : TickCompute("alarm", musicAvailable)
  \/ \E success \in BOOLEAN : TickFinish("alarm", success)

SpecStopped == InitStopped /\ [][NextStopped]_vars

\* C25: while the stored session.active is false, no invocation of tick or
\* handleTabChange gets past its loadState, and every step other than a
\* step of an invocation already in flight (one that loaded the state
\* while the session was active) leaves the stored state and the module
\* variables as they were, evaluates nothing and dispatches nothing.
C25_StoppedSessionUntouched ==
  [][~stored.session.active
     => /\ \A k \in Tickers : ticks[k].pc = "idle" => ticks'[k].pc = "idle"
        /\ tabChange.pc = "idle" => tabChange'.pc = "idle"
        /\ (tabChange' = tabChange /\ ticks' = ticks)
           => /\ stored' = stored
              /\ mem' = mem
              /\ dispatchLog' = dispatchLog
              /\ evals' = evals]_vars

\* The alarm has fired and a tab change has arrived with the session
\* stopped and a record outstanding: the history still holds the two
\* entries of the running session, the record is still there and nothing
\* is in flight.
C25_Witness ==
  /\ ~stored.session.active
  /\ Quiescent
  /\ nTicks >= 1
  /\ nEvents >= 1
  /\ Len(stored.history) = 2
  /\ stored.lastIntervention # NoIntervention
  /\ stored.signals.tabSwitches = <<>>
  /\ dispatchLog = <<>>

\* ------------------------------------------------------------------------
\* C26: the history cap
\* ------------------------------------------------------------------------
\* The spacing of the entries of a long-running session's history.
HistorySpacing == 900

\* A history of n entries, the last one HistorySpacing before Epoch.
HistoryOf(n) ==
  [i \in 1..n |-> [timestamp |-> Epoch - HistorySpacing * (n - i + 1),
                   score |-> (i * 7) % 101]]

\* Histories of a session: just started, one tick in, one below the cap and
\* at the cap.
HistoryLengths == {0, 1, HISTORY_MAX_ENTRIES - 1, HISTORY_MAX_ENTRIES}

\* Bound of the history runs: alarms fired.
MaxHistoryTicks == 2

InitHistory ==
  /\ \E mode \in Modes, n \in HistoryLengths :
       stored =
         [DEFAULT_STATE EXCEPT
            !.session = [active |-> TRUE, mode |-> mode, phase |-> "study",
                         startedAt |-> Epoch - HistorySpacing * (n + 1)],
            !.signals = [DefaultSignals EXCEPT !.currentSite = "reddit.com",
                                               !.currentCategory = "socialMedia"],
            !.history = HistoryOf(n),
            !.metrics = [focusScore |-> IF n = 0 THEN 100 ELSE (n * 7) % 101,
                         trendDelta |-> 0]]
  /\ clock = Epoch
  /\ mem = InitMem
  /\ ticks = [k \in Tickers |-> IdleTick]
  /\ tabChange = IdleTabChange
  /\ nTicks = 0
  /\ nEvents = 0
  /\ dispatchLog = <<>>
  /\ evals = EmptyMap

\* The alarm's ticks, one at a time.
NextHistory ==
  \/ (Quiescent /\ Advance(TimeStep))
  \/ (Quiescent /\ nTicks < MaxHistoryTicks /\ TickStart("alarm"))
  \/ \E musicAvailable \in BOOLEAN : TickCompute("alarm", musicAvailable)
  \/ \E success \in BOOLEAN : TickFinish("alarm", success)

SpecHistory == InitHistory /\ [][NextHistory]_vars

\* C26: the history a tick saves holds at most HISTORY_MAX_ENTRIES entries;
\* its last entry is the tick's own {timestamp, score}; the entries before
\* it are the newest entries of the history the tick loaded, in their
\* order, so that above the cap exactly the oldest entry is gone.
C26_HistoryCapped ==
  [][\A k \in Tickers :
       TickReturns(k)
       => LET old == stored.history
              h == stored'.history
              kept == Len(h) - 1
          IN /\ Len(h) <= HISTORY_MAX_ENTRIES
             /\ Len(h) = IF Len(old) < HISTORY_MAX_ENTRIES
                         THEN Len(old) + 1 ELSE HISTORY_MAX_ENTRIES
             /\ h[Len(h)] = [timestamp |-> ticks[k].now,
                             score |-> stored'.metrics.focusScore]
             /\ \A i \in 1..kept : h[i] = old[Len(old) - kept + i]]_vars

\* A tick has returned on a history that was at the cap: the history is
\* still at the cap, its first entry is what was the second one.
C26_Witness ==
  /\ Quiescent
  /\ nTicks >= 1
  /\ Len(stored.history) = HISTORY_MAX_ENTRIES
  /\ stored.history[1] = HistoryOf(HISTORY_MAX_ENTRIES)[2]
  /\ stored.history[HISTORY_MAX_ENTRIES].timestamp >= Epoch

\* ------------------------------------------------------------------------
\* C27: the trend delta
\* ------------------------------------------------------------------------
\* Bound of the trend runs: entries of the drawn histories.
MaxTrendEntries == 3

\* When the earlier ticks of the session pushed their entries, relative to
\* Epoch, and the scores they pushed.
TrendOffsets == <<50000, 30000, 20000, 5000>>
TrendScores == {30, 80}

\* The histories of at most MaxTrendEntries entries: any choice of the
\* earlier ticks, in the order they ran, each with any of the scores.
RECURSIVE TrendHistoriesFrom(_, _)
TrendHistoriesFrom(j, n) ==
  IF n = 0 \/ j > Len(TrendOffsets) THEN {<<>>}
  ELSE TrendHistoriesFrom(j + 1, n)
       \cup {<<[timestamp |-> Epoch - TrendOffsets[j], score |-> sc]>> \o rest :
               sc \in TrendScores, rest \in TrendHistoriesFrom(j + 1, n - 1)}

TrendHistories == TrendHistoriesFrom(1, MaxTrendEntries)

InitTrend ==
  /\ \E history \in TrendHistories :
       stored =
         [DEFAULT_STATE EXCEPT
            !.session = [active |-> TRUE, mode |-> "strict", phase |-> "study",
                         startedAt |-> Epoch - 120000],
            !.signals = [DefaultSignals EXCEPT !.currentSite = "reddit.com",
                                               !.currentCategory = "socialMedia"],
            !.history = history,
            !.metrics = [focusScore |-> IF history = <<>> THEN 100
                                        ELSE history[Len(history)].score,
                         trendDelta |-> 0]]
  /\ clock = Epoch
  /\ mem = InitMem
  /\ ticks = [k \in Tickers |-> IdleTick]
  /\ tabChange = IdleTabChange
  /\ nTicks = 0
  /\ nEvents = 0
  /\ dispatchLog = <<>>
  /\ evals = EmptyMap

\* The alarm fires later than the tick before it.
AlarmLater ==
  IF Len(stored.history) = 0 THEN TRUE
  ELSE stored.history[Len(stored.history)].timestamp < clock

NextTrend ==
  \/ (Quiescent /\ Advance(TimeStep))
  \/ (Quiescent /\ AlarmLater /\ nTicks < MaxHistoryTicks /\ TickStart("alarm"))
  \/ \E musicAvailable \in BOOLEAN : TickCompute("alarm", musicAvailable)
  \/ \E success \in BOOLEAN : TickFinish("alarm", success)

SpecTrend == InitTrend /\ [][NextTrend]_vars

\* The positions of the entries of the last 30 s.
InWindow(history, nowv) ==
  {i \in 1..Len(history) : nowv - history[i].timestamp < 30000}

\* The entry of a set of positions with the latest / earliest timestamp.
Latest(history, W) ==
  CHOOSE i \in W : \A j \in W : history[j].timestamp <= history[i].timestamp
Earliest(history, W) ==
  CHOOSE i \in W : \A j \in W : history[i].timestamp <= history[j].timestamp

\* C27: computeTrendDelta(history, now) is 0 when fewer than two entries
\* lie in the last 30 s, and otherwise the score of the most recent entry
\* of the window minus the score of the oldest entry of the window; the
\* trendDelta a tick stores is that of the history it saved.
C27_TrendWithinWindow ==
  /\ \A W \in {InWindow(stored.history, clock)} :
       computeTrendDelta(stored.history, clock) =
         IF Cardinality(W) < 2 THEN 0
         ELSE stored.history[Latest(stored.history, W)].score
                - stored.history[Earliest(stored.history, W)].score
  /\ (Quiescent /\ nTicks >= 1)
     => \A nowv \in {stored.history[Len(stored.history)].timestamp} :
          \A W \in {InWindow(stored.history, nowv)} :
            stored.metrics.trendDelta =
              IF Cardinality(W) < 2 THEN 0
              ELSE stored.history[Latest(stored.history, W)].score
                     - stored.history[Earliest(stored.history, W)].score

\* A tick has saved a history with an entry older than the window and two
\* inside it, whose delta over the window differs from the delta over the
\* whole history.
C27_Witness ==
  /\ Quiescent
  /\ nTicks >= 1
  /\ stored.metrics.trendDelta = computeTrendDelta(stored.history, clock)
  /\ Len(stored.history) >= 3
  /\ Cardinality(InWindow(stored.history, clock)) = 2
  /\ computeTrendDelta(stored.history, clock) # 0
  /\ computeTrendDelta(stored.history, clock)
       # stored.history[Len(stored.history)].score - stored.history[1].score

\* ------------------------------------------------------------------------
\* C28: a tab-change event delivered twice
\* ------------------------------------------------------------------------
\* The handleTabChange in flight is the event the store saw last, delivered
\* again with the same timestamp: the same URL as the delivery before it,
\* whose switch, site and activity the stored signals carry at that time.
RepeatedTabChange ==
  /\ tabChange.pc = "categorizing"
  /\ tabChange.state = stored
  /\ tabChange.previousUrl = tabChange.newUrl
  /\ stored.signals.currentSite = Hostname(tabChange.newUrl)
  /\ stored.signals.lastActivity = tabChange.now
  /\ Len(stored.signals.tabSwitches) >= 1
  /\ stored.signals.tabSwitches[Len(stored.signals.tabSwitches)]
       = tabChange.now

\* C28 (as claimed): delivering the same tab-change event a second time with
\* the same timestamp leaves the tab-switch timestamps, their count and
\* the per-site accumulated time as the first delivery left them.
C28_TabChangeIdempotent ==
  [][(RepeatedTabChange /\ TabChangeReturns)
     => /\ stored'.signals.tabSwitches = stored.signals.tabSwitches
        /\ Len(stored'.signals.tabSwitches) = Len(stored.signals.tabSwitches)
        /\ stored'.signals.siteTime = stored.signals.siteTime]_vars

\* ------------------------------------------------------------------------
\* C29: the tick and the stored tab switches
\* ------------------------------------------------------------------------
\* The signals with the tab switches outside the 60 s window dropped.
PrunedSignals(sig, nowv) ==
  [sig EXCEPT !.tabSwitches = pruneTimestamps(sig.tabSwitches, nowv)]

\* C29 (as claimed): the state a tick of an active session saves holds no
\* tab-switch timestamp outside the 60 s window of the tick's now, and the
\* scorer counts only the switches inside the window: it scores the
\* stored signals as it scores them pruned.
C29_TickPrunesStore ==
  /\ [][\A k \in Tickers :
          TickReturns(k)
          => \A i \in 1..Len(stored'.signals.tabSwitches) :
               stored'.signals.tabSwitches[i] > ticks[k].now - 60000]_vars
  /\ [](\A mode \in Modes :
          computeFocusScore(stored.signals, mode, clock)
            = computeFocusScore(PrunedSignals(stored.signals, clock),
                                mode, clock))

\* ------------------------------------------------------------------------
\* C30: the decisions of a tick across restarts of the service worker
\* ------------------------------------------------------------------------
\* Bounds of the restart runs: alarms fired and tab changes delivered.
MaxRestartTicks == 2
MaxRestartEvents == 1

\* A session in progress, on a feed, in normal or strict mode.
InitRestart ==
  /\ \E mode \in {"normal", "strict"}, frame \in SignalFrames :
       stored =
         [DEFAULT_STATE EXCEPT
            !.session = [active |-> TRUE, mode |-> mode, phase |-> "study",
                         startedAt |-> Epoch - 120000],
            !.signals = [DefaultSignals EXCEPT !.currentSite = "reddit.com",
                                               !.currentCategory = "socialMedia"],
            !.metrics = frame.metrics,
            !.history = frame.history,
            !.lastIntervention = frame.lastIntervention,
            !.policy = frame.policy]
  /\ clock = Epoch
  /\ mem = InitMem
  /\ ticks = [k \in Tickers |-> IdleTick]
  /\ tabChange = IdleTabChange
  /\ nTicks = 0
  /\ nEvents = 0
  /\ dispatchLog = <<>>
  /\ evals = EmptyMap

\* The browser stops the idle service worker and starts it again: the
\* module-level variables are initialised anew, the storage is kept.
Restart ==
  /\ Quiescent
  /\ mem # InitMem
  /\ mem' = InitMem
  /\ UNCHANGED <<stored, clock, ticks, tabChange, nTicks, nEvents,
                 dispatchLog, evals>>

NextRestart ==
  \/ (Quiescent /\ Advance(TimeStep))
  \/ Restart
  \/ (Quiescent /\ nEvents < MaxRestartEvents /\ TabChangeStart("reddit.com"))
  \/ \E aiAnswer \in AiAnswers : TabChangeFinish(aiAnswer)
  \/ (Quiescent /\ nTicks < MaxRestartTicks /\ TickStart("alarm"))
  \/ \E musicAvailable \in BOOLEAN : TickCompute("alarm", musicAvailable)
  \/ \E success \in BOOLEAN : TickFinish("alarm", success)

SpecRestart == InitRestart /\ [][NextRestart]_vars

\* Whether the record of a state is due for evaluation at nowv, and whether
\* the record left after that is inside the cooldown of the mode: both read
\* from the stored state and the time alone.
DueFromStore(state, nowv) ==
  /\ state.lastIntervention # NoIntervention
  /\ nowv - state.lastIntervention.appliedAt >= 45000

BlockedFromStore(state, nowv) ==
  /\ state.lastIntervention # NoIntervention
  /\ ~DueFromStore(state, nowv)
  /\ nowv - state.lastIntervention.appliedAt
       < (IF state.session.mode = "gentle" THEN 60000
          ELSE IF state.session.mode = "normal" THEN 30000 ELSE 10000)

\* C30: whatever the module variables hold (a worker that has run since
\* the session started, or one restarted between ticks), a tick evaluates
\* the outstanding record exactly when the stored appliedAt is at least
\* 45 s before its now, and the cooldown answer of shouldIntervene is given
\* exactly when the stored record that is left is younger than the mode's
\* cooldown; a tick the cooldown blocks dispatches nothing and leaves the
\* record.
C30_DecisionsFromStoreAlone ==
  [][\A k \in Tickers :
       (ticks[k].pc = "loaded" /\ ticks'[k].pc # "loaded")
       => LET state == ticks[k].state
              nowv == ticks[k].now
              scored == TickScored(state, nowv, clock)
              st == TickEvaluated(scored, nowv)
          IN /\ (evals' # evals) <=> DueFromStore(state, nowv)
             /\ ticks'[k].pc = "applying"
                  => ticks'[k].evaluated = DueFromStore(state, nowv)
             /\ (shouldIntervene(st, nowv).reason = "cooldown")
                  <=> BlockedFromStore(state, nowv)
             /\ BlockedFromStore(state, nowv)
                  => /\ ticks'[k].pc = "idle"
                     /\ stored'.lastIntervention = state.lastIntervention
                     /\ dispatchLog' = dispatchLog]_vars

\* A restarted worker (a tab change had set currentTabUrl, which is null
\* again) has run a tick inside the cooldown of the stored record: the
\* record is still there and nothing was dispatched after it.
C30_Witness ==
  /\ Quiescent
  /\ nEvents >= 1
  /\ nTicks >= 1
  /\ mem = InitMem
  /\ stored.lastIntervention # NoIntervention
  /\ Len(stored.history) >= 1
  /\ stored.history[Len(stored.history)].timestamp
       > stored.lastIntervention.appliedAt
  /\ BlockedFromStore(stored, stored.history[Len(stored.history)].timestamp)

\* ------------------------------------------------------------------------
\* C31: the triggers of the gate and the reason it reports
\* ------------------------------------------------------------------------
\* The score and trend thresholds of the three modes, as claimed.
ScoreThresholdOf(mode) ==
  IF mode = "gentle" THEN 45 ELSE IF mode = "normal" THEN 60 ELSE 75

TrendThresholdOf(mode) ==
  IF mode = "gentle" THEN -15 ELSE IF mode = "normal" THEN -10 ELSE -5

\* C31: once the cooldown of the outstanding record is over, in an active
\* study session, shouldIntervene answers low_focus when the score is
\* below the mode's threshold, else dropping_focus when the trend is below
\* the mode's trend threshold, else doomscrolling in strict mode with the
\* flag set (each with should = true), and otherwise focused with
\* should = false.
C31_TriggersAndReasons ==
  (SinceApplied >= COOLDOWNS[stored.session.mode])
  => \A mode \in {stored.session.mode} :
       shouldIntervene(stored, clock) =
         IF stored.metrics.focusScore < ScoreThresholdOf(mode)
         THEN [should |-> TRUE, reason |-> "low_focus"]
         ELSE IF stored.metrics.trendDelta < TrendThresholdOf(mode)
         THEN [should |-> TRUE, reason |-> "dropping_focus"]
         ELSE IF mode = "strict" /\ stored.signals.isDoomscrolling
         THEN [should |-> TRUE, reason |-> "doomscrolling"]
         ELSE [should |-> FALSE, reason |-> "focused"]

\* The cooldown has run out as time passed, score and trend are both below
\* their thresholds, and the reason is the score.
C31_Witness ==
  /\ clock > Epoch
  /\ SinceApplied >= COOLDOWNS[stored.session.mode]
  /\ stored.metrics.focusScore < ScoreThresholdOf(stored.session.mode)
  /\ stored.metrics.trendDelta < TrendThresholdOf(stored.session.mode)
  /\ shouldIntervene(stored, clock).reason = "low_focus"

\* ------------------------------------------------------------------------
\* C32: the priority list of selectIntervention
\* ------------------------------------------------------------------------
\* The priority list as claimed, for the state and the clock of the model;
\* doomscrolling is what the tick passes to selectIntervention.
ClaimedSelection ==
  LET doomscrolling == TickIsDoomscrolling(stored)
      last == stored.lastIntervention
      score == stored.metrics.focusScore
  IN IF doomscrolling /\ stored.session.mode = "strict"
          /\ stored.settings.nuclearEnabled
     THEN "NUCLEAR"
     ELSE IF /\ last # NoIntervention
             /\ clock - last.appliedAt < 60000
             /\ last.type \notin {"VIOLA_POPUP", "NUCLEAR"}
             /\ score < 50
     THEN "VIOLA_POPUP"
     ELSE IF score < 30 /\ doomscrolling
     THEN "WHITE_NOISE"
     ELSE IF /\ stored.settings.autoMusicSwitch
             /\ score < stored.settings.autoMusicThreshold
             /\ stored.signals.currentCategory
                  \notin {"socialMedia", "entertainment", "games", "blocked"}
     THEN "SMART_RECOMMEND"
     ELSE selectArmUCB(stored.policy, TRUE)

\* C32 (as claimed): selectIntervention returns the action of the first
\* matching rule of the list NUCLEAR, VIOLA_POPUP, WHITE_NOISE,
\* SMART_RECOMMEND (auto switch on, score below autoMusicThreshold, not on
\* a bad-category site), bandit; that action is what is dispatched.
C32_PriorityList ==
  /\ selectIntervention(stored, TickIsDoomscrolling(stored), clock)
       = ClaimedSelection
  /\ dispatchLog # <<>> => dispatchLog[1].type = ClaimedSelection

\* ------------------------------------------------------------------------
\* C33: the bandit's choice
\* ------------------------------------------------------------------------
\* Policies drawn: the priors, and BOOST_ENERGY, SWITCH_PLAYLIST and NUCLEAR
\* with any of the values and counts, equal ones included.
ArmPolicies ==
  {DefaultPolicy}
    \cup {[arms |-> << [name |-> "BOOST_ENERGY", value |-> va, n |-> na],
                       [name |-> "SWITCH_PLAYLIST", value |-> vb, n |-> nb],
                       [name |-> "NUCLEAR", value |-> vc, n |-> nc] >>] :
            va \in UCBValues, vb \in UCBValues, vc \in UCBValues,
            na \in 1..MaxArmPulls, nb \in 1..MaxArmPulls,
            nc \in 1..MaxArmPulls}

InitArms ==
  /\ \E policy \in ArmPolicies :
       stored =
         [DEFAULT_STATE EXCEPT
            !.session = [active |-> TRUE, mode |-> "normal", phase |-> "study",
                         startedAt |-> Epoch],
            !.policy = policy]
  /\ clock = Epoch
  /\ mem = InitMem
  /\ ticks = [k \in Tickers |-> IdleTick]
  /\ tabChange = IdleTabChange
  /\ nTicks = 0
  /\ nEvents = 0
  /\ dispatchLog = <<>>
  /\ evals = EmptyMap

SpecArms == InitArms /\ [][NextUCB]_vars

\* value + sqrt(2 * ln(totalN + 1) / n) of the arm at position i, with
\* totalN the sum of n over every arm of the policy.
ArmScore(policy, i) ==
  ucbScore(policy.arms[i],
           SumSeq([j \in 1..Len(policy.arms) |-> policy.arms[j].n]))

\* The positions of the arms other than NUCLEAR.
Eligible(policy) ==
  {i \in 1..Len(policy.arms) : policy.arms[i].name # "NUCLEAR"}

\* C33: with NUCLEAR excluded, selectArmUCB returns the arm other than
\* NUCLEAR whose score is the highest, the scores taken with totalN
\* summed over all arms, NUCLEAR included, and among arms of equal highest
\* score the first in the policy's order; with the priors that is
\* SMART_RECOMMEND; and the arm dispatched is the arm returned.
C33_HighestScoreFirstWins ==
  /\ \A i \in Eligible(stored.policy) :
       (\A j \in Eligible(stored.policy) :
          /\ ArmScore(stored.policy, j) <= ArmScore(stored.policy, i)
          /\ ArmScore(stored.policy, j) = ArmScore(stored.policy, i) => i <= j)
       => selectArmUCB(stored.policy, TRUE) = stored.policy.arms[i].name
  /\ selectArmUCB(stored.policy, TRUE) # "NUCLEAR"
  /\ stored.policy = DefaultPolicy
     => selectArmUCB(stored.policy, TRUE) = "SMART_RECOMMEND"
  /\ dispatchLog # <<>>
     => dispatchLog[1].type = selectArmUCB(stored.policy, TRUE)

\* The two eligible arms tie, NUCLEAR scores higher than both, and the
\* first of the two has been dispatched.
C33_Witness ==
  /\ Len(stored.policy.arms) = 3
  /\ ArmScore(stored.policy, 1) = ArmScore(stored.policy, 2)
  /\ ArmScore(stored.policy, 3) > ArmScore(stored.policy, 1)
  /\ dispatchLog # <<>>
  /\ dispatchLog[1].type = stored.policy.arms[1].name

\* ------------------------------------------------------------------------
\* C34: records and policies without a matching arm
\* ------------------------------------------------------------------------
\* Bound of the runs: alarms fired.
MaxArmlessTicks == 2

\* Policies drawn: the priors, no arm at all, NUCLEAR alone.
ArmlessPolicies ==
  {DefaultPolicy,
   [arms |-> <<>>],
   [arms |-> << [name |-> "NUCLEAR", value |-> Rat(1, 5), n |-> 1] >>]}

\* Types of the outstanding record: three the policy has no arm for, and
\* one it has.
ArmlessTypes == {"VIOLA_POPUP", "WHITE_NOISE", "DUCK_VOLUME", "BOOST_ENERGY"}

\* A strict session on a feed with a record that is due at the first tick.
InitArmless ==
  /\ \E policy \in ArmlessPolicies, type \in ArmlessTypes :
       stored =
         [DEFAULT_STATE EXCEPT
            !.session = [active |-> TRUE, mode |-> "strict", phase |-> "study",
                         startedAt |-> Epoch - 120000],
            !.signals = [DefaultSignals EXCEPT !.currentSite = "reddit.com",
                                               !.currentCategory = "socialMedia"],
            !.metrics = [focusScore |-> 40, trendDelta |-> 0],
            !.history = << [timestamp |-> Epoch - EVAL_WINDOW_MS,
                            score |-> 40] >>,
            !.lastIntervention = [type |-> type,
                                  appliedAt |-> Epoch - EVAL_WINDOW_MS,
                                  preScore |-> 40],
            !.policy = policy]
  /\ clock = Epoch
  /\ mem = InitMem
  /\ ticks = [k \in Tickers |-> IdleTick]
  /\ tabChange = IdleTabChange
  /\ nTicks = 0
  /\ nEvents = 0
  /\ dispatchLog = <<>>
  /\ evals = EmptyMap

NextArmless ==
  \/ (Quiescent /\ Advance(TimeStep))
  \/ (Quiescent /\ nTicks < MaxArmlessTicks /\ TickStart("alarm"))
  \/ \E musicAvailable \in BOOLEAN : TickCompute("alarm", musicAvailable)
  \/ \E success \in BOOLEAN : TickFinish("alarm", success)

SpecArmless == InitArmless /\ [][NextArmless]_vars

\* The policy has an arm of that name.
HasArm(policy, name) ==
  \E i \in 1..Len(policy.arms) : policy.arms[i].name = name

\* C34: selectArmUCB returns BOOST_ENERGY for a policy without an arm
\* other than NUCLEAR; and the tick that evaluates a record whose type has
\* no arm in the policy leaves the policy as it was and clears the record.
C34_MissingArmHarmless ==
  /\ [](\A policy \in {stored.policy} \cup {ticks[k].state.policy : k \in Tickers} :
          (\A i \in 1..Len(policy.arms) : policy.arms[i].name = "NUCLEAR")
          => selectArmUCB(policy, TRUE) = "BOOST_ENERGY")
  /\ [][\A k \in Tickers :
          (/\ ticks[k].pc = "loaded"
           /\ ticks'[k].pc # "loaded"
           /\ ticks[k].state.lastIntervention # NoIntervention
           /\ ticks[k].now - ticks[k].state.lastIntervention.appliedAt >= 45000
           /\ ~HasArm(ticks[k].state.policy,
                      ticks[k].state.lastIntervention.type))
          => /\ TickStateAfter(k).policy = ticks[k].state.policy
             /\ TickStateAfter(k).lastIntervention = NoIntervention
             /\ evals' # evals]_vars

\* A tick has evaluated a record the policy has no arm for and then
\* dispatched the default of a policy without an eligible arm.
C34_Witness ==
  /\ Quiescent
  /\ ~HasArm(stored.policy, "BOOST_ENERGY")
  /\ \E rec \in DOMAIN evals : rec.type = "VIOLA_POPUP"
  /\ dispatchLog # <<>>
  /\ dispatchLog[1].type = "BOOST_ENERGY"
  /\ stored.lastIntervention.type = "BOOST_ENERGY"

\* ------------------------------------------------------------------------
\* C35: cooling down ends
\* ------------------------------------------------------------------------
\* Bound of the runs: alarms fired.
MaxLiveTicks == 2

\* A session in progress on a feed, in any mode, just started or with a
\* record 15 s old.
InitLive ==
  /\ \E mode \in Modes, frame \in SignalFrames :
       stored =
         [DEFAULT_STATE EXCEPT
            !.session = [active |-> TRUE, mode |-> mode, phase |-> "study",
                         startedAt |-> Epoch - 120000],
            !.signals = [DefaultSignals EXCEPT !.currentSite = "reddit.com",
                                               !.currentCategory = "socialMedia"],
            !.metrics = frame.metrics,
            !.history = frame.history,
            !.lastIntervention = frame.lastIntervention,
            !.policy = frame.policy]
  /\ clock = Epoch
  /\ mem = InitMem
  /\ ticks = [k \in Tickers |-> IdleTick]
  /\ tabChange = IdleTabChange
  /\ nTicks = 0
  /\ nEvents = 0
  /\ dispatchLog = <<>>
  /\ evals = EmptyMap

\* The alarm fires while the clock of the model still has a cooldown of the
\* mode ahead of it, so that the end of the cooldown of every dispatch
\* lies within the run.
AlarmInTime ==
  /\ Quiescent
  /\ nTicks < MaxLiveTicks
  /\ clock + COOLDOWNS[stored.session.mode] <= MaxClock
  /\ TickStart("alarm")

NextLive ==
  \/ (Quiescent /\ Advance(TimeStep))
  \/ AlarmInTime
  \/ \E musicAvailable \in BOOLEAN : TickCompute("alarm", musicAvailable)
  \/ \E success \in BOOLEAN : TickFinish("alarm", success)

\* Time advances, the alarm keeps firing, and the awaits of a tick (storage,
\* tab messages, the actuator) return: the tick does not rest at either of
\* them.  A tick at an await can always take its next step, so the last
\* two conjuncts say what weak fairness of TickCompute and TickFinish says.
SpecLive ==
  /\ InitLive
  /\ [][NextLive]_vars
  /\ WF_vars(Quiescent /\ Advance(TimeStep))
  /\ WF_vars(AlarmInTime)
  /\ []<>(ticks["alarm"].pc # "loaded")
  /\ []<>(ticks["alarm"].pc # "applying")

\* A tick now would be rejected with the reason cooldown.
CoolingDown == shouldIntervene(stored, clock).reason = "cooldown"

\* C35: in an active study session, once the cooldown of the mode has
\* passed since the stored record was applied, shouldIntervene does not
\* answer cooldown; and every state in which it answers cooldown is
\* followed by one in which it does not.
C35_CoolingDownEnds ==
  /\ [](/\ stored.lastIntervention # NoIntervention
        /\ clock - stored.lastIntervention.appliedAt
             >= COOLDOWNS[stored.session.mode]
        => ~CoolingDown)
  /\ (CoolingDown ~> ~CoolingDown)

\* A dispatch of this run put the session into its cooldown, the cooldown
\* has passed by the clock, the record is still stored, and a tick would
\* not be rejected for the cooldown.
C35_Witness ==
  /\ dispatchLog # <<>>
  /\ stored.lastIntervention # NoIntervention
  /\ stored.lastIntervention.appliedAt = dispatchLog[Len(dispatchLog)].at
  /\ clock - stored.lastIntervention.appliedAt
       >= COOLDOWNS[stored.session.mode]
  /\ ~CoolingDown

\* ------------------------------------------------------------------------
\* C36: the alarm's tick and the popup's tick in flight together
\* ------------------------------------------------------------------------
\* Bound of the runs: tick() invocations started, by either caller.
MaxOverlapTicks == 2

\* The 'focus-tick' alarm and the popup's TICK message both call tick();
\* nothing keeps one from starting while the other is at an await.  The
\* clock stands while an invocation is in flight.
NextOverlap ==
  \/ (Quiescent /\ Advance(TimeStep))
  \/ \E k \in Tickers : nTicks < MaxOverlapTicks /\ TickStart(k)
  \/ \E k \in Tickers, musicAvailable \in BOOLEAN : TickCompute(k, musicAvailable)
  \/ \E k \in Tickers, success \in BOOLEAN : TickFinish(k, success)

SpecOverlap == InitArmless /\ [][NextOverlap]_vars

\* C36 (as claimed): of two tick() invocations in flight together at most
\* one calls applyIntervention, no two dispatches are recorded for the same
\* instant, and no record is evaluated by both.
C36_OverlappingTicksExclusive ==
  /\ ~(\A k \in Tickers : ticks[k].pc = "applying")
  /\ \A i, j \in 1..Len(dispatchLog) :
       i < j => dispatchLog[i].at # dispatchLog[j].at
  /\ \A rec \in DOMAIN evals : evals[rec] <= 1

\* ------------------------------------------------------------------------
\* C37: what collaborators store while a tick is in flight
\* ------------------------------------------------------------------------
\* The elements of a list.
Elements(list) == {list[i] : i \in 1..Len(list)}

\* C37 (as claimed): the write of a returning tick keeps every entry of
\* music.recentlyRecommended that is in the store, the one smartRecommend
\* put there during this tick included.
C37_CollaboratorWritesKept ==
  [][\A k \in Tickers :
       TickReturns(k)
       => Elements(stored.music.recentlyRecommended)
            \subseteq Elements(stored'.music.recentlyRecommended)]_vars

\* ------------------------------------------------------------------------
\* C38: ticks at and shortly after an alarm
\* ------------------------------------------------------------------------
\* Bounds of the runs: alarms of the loop fired, vision signals delivered.
MaxAlarmTicks == 3
MaxAlarmEvents == 1

\* A strict session on a feed, the feed's tab in front, with no record, a
\* record that is due at the first tick or one that falls due 15 s later.
InitAlarms ==
  /\ \E rec \in {NoIntervention,
                 [type |-> "BOOST_ENERGY", appliedAt |-> Epoch - EVAL_WINDOW_MS,
                  preScore |-> 40],
                 [type |-> "BOOST_ENERGY",
                  appliedAt |-> Epoch + TimeStep - EVAL_WINDOW_MS,
                  preScore |-> 40]} :
       stored =
         [DEFAULT_STATE EXCEPT
            !.session = [active |-> TRUE, mode |-> "strict", phase |-> "study",
                         startedAt |-> Epoch - 120000],
            !.signals = [DefaultSignals EXCEPT !.currentSite = "reddit.com",
                                               !.currentCategory = "socialMedia"],
            !.metrics = [focusScore |-> 40, trendDelta |-> 0],
            !.history = << [timestamp |-> Epoch - EVAL_WINDOW_MS,
                            score |-> 40] >>,
            !.lastIntervention = rec]
  /\ clock = Epoch
  /\ mem = [InitMem EXCEPT !.currentTabUrl = "reddit.com"]
  /\ ticks = [k \in Tickers |-> IdleTick]
  /\ tabChange = IdleTabChange
  /\ nTicks = 0
  /\ nEvents = 0
  /\ dispatchLog = <<>>
  /\ evals = EmptyMap

NextAlarms ==
  \/ (Quiescent /\ Advance(TimeStep))
  \/ \E msg \in VisionMsgs :
       Quiescent /\ nEvents < MaxAlarmEvents /\ HandleVisionSignal(msg)
  \/ (Quiescent /\ nTicks < MaxAlarmTicks /\ TickStart("alarm"))
  \/ \E musicAvailable \in BOOLEAN : TickCompute("alarm", musicAvailable)
  \/ \E success \in BOOLEAN : TickFinish("alarm", success)

SpecAlarms == InitAlarms /\ [][NextAlarms]_vars

\* Tick k runs its doomscroll detector in this step, and the detector
\* fires its alarm, or an alarm of the detector or of the vision handler
\* is less than 10 s before the tick's now.
TickAtAlarm(k) ==
  /\ TickDetects(k)
  /\ \/ mem'.lastDoomscrollAlarm # mem.lastDoomscrollAlarm
     \/ ticks[k].now - mem.lastDoomscrollAlarm < 10000
     \/ ticks[k].now - mem.lastFaceAwayAlarm < 10000

C39_NoRepeatedViola ==
  \A i \in 1..(Len(dispatchLog) - 1) :
    (/\ dispatchLog[i].session = dispatchLog[i + 1].session
     /\ dispatchLog[i + 1].type = "VIOLA_POPUP")
    => dispatchLog[i].type \notin {"VIOLA_POPUP", "NUCLEAR"}

\* ------------------------------------------------------------------------
\* C40: escalation in gentle mode
\* ------------------------------------------------------------------------
\* Bounds of the runs: alarms fired; mode changes made in the popup and
\* activity reports delivered.
MaxGentleTicks == 2
MaxGentleEvents == 1

\* setMode(mode)
SetMode(mode) ==
  /\ stored' = [stored EXCEPT !.session.mode = mode]
  /\ nEvents' = nEvents + 1
  /\ UNCHANGED <<tabChange, clock, mem, ticks, nTicks, dispatchLog, evals>>

\* A gentle or a strict session on a feed, with no record or with a
\* record of the bandit that is 15 s or 30 s old.
InitGentle ==
  /\ \E mode \in {"gentle", "strict"},
        rec \in {NoIntervention,
                 [type |-> "BOOST_ENERGY", appliedAt |-> Epoch - TimeStep,
                  preScore |-> 40],
                 [type |-> "BOOST_ENERGY", appliedAt |-> Epoch - 2 * TimeStep,
                  preScore |-> 40]} :
       stored =
         [DEFAULT_STATE EXCEPT
            !.session = [active |-> TRUE, mode |-> mode, phase |-> "study",
                         startedAt |-> Epoch - 120000],
            !.signals = [DefaultSignals EXCEPT !.currentSite = "reddit.com",
                                               !.currentCategory = "socialMedia"],
            !.metrics = [focusScore |-> 40, trendDelta |-> 0],
            !.history = << [timestamp |-> Epoch - 2 * TimeStep,
                            score |-> 40] >>,
            !.lastIntervention = rec]
  /\ clock = Epoch
  /\ mem = InitMem
  /\ ticks = [k \in Tickers |-> IdleTick]
  /\ tabChange = IdleTabChange
  /\ nTicks = 0
  /\ nEvents = 0
  /\ dispatchLog = <<>>
  /\ evals = EmptyMap

NextGentle ==
  \/ (Quiescent /\ Advance(TimeStep))
  \/ \E mode \in Modes :
       Quiescent /\ nEvents < MaxGentleEvents /\ SetMode(mode)
  \/ (Quiescent /\ nEvents < MaxGentleEvents
        /\ HandleActivityReport(ScrollingFeed))
  \/ (Quiescent /\ nTicks < MaxGentleTicks /\ TickStart("alarm"))
  \/ \E musicAvailable \in BOOLEAN : TickCompute("alarm", musicAvailable)
  \/ \E success \in BOOLEAN : TickFinish("alarm", success)

SpecGentle == InitGentle /\ [][NextGentle]_vars

\* C40: a tick that has loaded a session in gentle mode does not select
\* VIOLA_POPUP, and no dispatch made in gentle mode is a VIOLA_POPUP.
C40_GentleNeverEscalates ==
  /\ \A k \in Tickers :
       (ticks[k].pc = "applying" /\ ticks[k].state.session.mode = "gentle")
       => ticks[k].interventionType # "VIOLA_POPUP"
  /\ \A i \in 1..Len(dispatchLog) :
       dispatchLog[i].mode = "gentle" => dispatchLog[i].type # "VIOLA_POPUP"

\* A dispatch in gentle mode at a focus score below 50, less than 60 s
\* after the previous dispatch of the session.
C40_Witness ==
  /\ Len(dispatchLog) = 2
  /\ dispatchLog[2].mode = "gentle"
  /\ dispatchLog[2].at - dispatchLog[1].at < 60000
  /\ dispatchLog[1].type \notin {"VIOLA_POPUP", "NUCLEAR"}
  /\ stored.lastIntervention # NoIntervention
  /\ stored.lastIntervention.appliedAt = dispatchLog[2].at
  /\ stored.lastIntervention.preScore < 50

====
